---- MODULE Spec2Model ----
(***************************************************************************)
(* Session-driven dialogue engine of the max-provider bot.                 *)
(*                                                                         *)
(* Part 1: SessionService (utils/session/session.service.ts), the keyed    *)
(*         in-memory session table whose records own a Node timer.         *)
(* Part 2: the auth session store, SessionManagerService, and its timer    *)
(*         registry, SessionTimeoutUtil (auth/auth.service).               *)
(* Part 3: the phone-auth dialogue: AuthStartHandler, MessageHandler,      *)
(*         PhoneConfirmationHandler and the step handlers, run as          *)
(*         interleaved async handlers that suspend at their awaits;        *)
(*         ResendCodeHandler (/resend_code) joins them in SpecResend.      *)
(*                                                                         *)
(* Time is kept relative: a pending timer carries the number of clock      *)
(* ticks left until it is due, and a stored timestamp is kept as its age   *)
(* in ticks.  A tick action lets one tick pass; it is disabled while a     *)
(* timer is due, so a due timer fires before more time passes.             *)
(***************************************************************************)
EXTENDS Integers, FiniteSets, Sequences, Bags, TLC

\* ---------------------------------------------------------------- bounds
MaxKeys == 2
\* handles that can be pending at once for one key
MaxTimers == 2
\* handler runs that can be suspended at once
MaxRuns == 1

\* ------------------------------------------------------- program constants
MsPerMinute == 60000
\* the SessionService clock ticks every ten minutes
SvcTickMs == 10 * MsPerMinute
DIALOG_TIMEOUT == (30 * 60 * 1000) \div SvcTickMs
\* the auth clock ticks every five minutes
AuthTickMs == 5 * MsPerMinute
sessionTimeout == 300000 \div AuthTickMs
SMS_RESEND_COOLDOWN == (30 * 60 * 1000) \div AuthTickMs
RESEND_CODE_SPAM_LIMIT == (5 * 60 * 1000) \div AuthTickMs
MAX_ATTEMPTS == 10
\* the init-chat clock ticks every twenty minutes
InitChatTickMs == 20 * MsPerMinute
SESSION_TIMEOUT == (60 * 60 * 1000) \div InitChatTickMs

Keys == 1..MaxKeys
\* the problem order the courier is asked about; 0 stands for no comment
NoComment == 0

VARIABLES
  focus,         \* which part of the program a behaviour exercises
  svcSessions,   \* SessionService.sessions : key -> SessionType
  svcTimers,     \* pending Node timers started by SessionService: id -> [key, left]
  svcOp,         \* the last SessionService call: [op, key, had]; had: key had a session
  sessions,      \* SessionManagerService.sessions : chatId -> AuthSession
  activeTimeouts,\* SessionTimeoutUtil.activeTimeouts : chatId -> timer handle
  timers,        \* pending Node timers started by SessionTimeoutUtil: id -> [key, left]
  authOp,        \* the last call on the auth store or registry: [op, key, had]
  runs,          \* handler runs suspended at an await: a bag of [pc, chat, flow, phone, staff, code]
  staffMax,      \* the staffMax table: ids of the staff that have an identity link
  stats,         \* per chat, since its session was created: [links, successes, accepted]
  last,          \* what the last handler step did, see Did
  problemOrders,      \* prisma.problemOrders: orderId -> courierComment
  problemOrderPhotos, \* prisma.problemOrderPhotos: the rows [orderId, url, index] in insertion order
  initSessions,  \* init-chat SessionManagerService.sessions : userId -> InitChatSessionDto
  initTimers,    \* pending Node timers started by the init-chat store: id -> [key, left]
  seenEvents     \* the seen-set of EventDeduplicatorService: key -> [left, passed]

svcVars == <<svcSessions, svcTimers, svcOp>>
authVars == <<sessions, activeTimeouts, timers, authOp>>
dlgVars == <<runs, staffMax, stats, last>>
botVars == <<problemOrders, problemOrderPhotos>>
\* one problem order, or two under "DeliveryBotOrders"
Orders == IF focus = "DeliveryBotOrders" THEN {1, 2} ELSE {1}
initVars == <<initSessions, initTimers, seenEvents>>
vars == <<focus, svcVars, authVars, dlgVars, botVars, initVars>>

\* ------------------------------------------------------------ map helpers
MapRemove(m, k) == [x \in DOMAIN m \ {k} |-> m[x]]
MapPut(m, k, v) == [x \in DOMAIN m \cup {k} |-> IF x = k THEN v ELSE m[x]]
EmptyMap == [x \in {} |-> 0]
\* object spread {...a, ...b}: the fields of b override those of a
Spread(a, b) == [f \in DOMAIN a \cup DOMAIN b |-> IF f \in DOMAIN b THEN b[f] ELSE a[f]]

\* ---------------------------------------------------------- Node timers
\* A handle is <<key, n>>: the n-th handle that is pending at once for key.
\* setTimeout returns a handle distinct from every pending handle.
Handles(key) == {<<key, n>> : n \in 1..MaxTimers}
FreeHandles(T, key) == Handles(key) \ DOMAIN T
FreshTimer(T, key) == CHOOSE t \in FreeHandles(T, key) : \A u \in FreeHandles(T, key) : t[2] <= u[2]
SetTimeout(T, t, key, delay) == MapPut(T, t, [key |-> key, left |-> delay])
\* clearTimeout on a handle that is not pending does nothing
ClearTimeout(T, t) == MapRemove(T, t)

\* ------------------------------------------------- SessionService: tables
Undefined == 0

SvcStates == {"initial", "awaiting_itemName", "waiting_courier_reply", "awaiting_photo_from_courier"}

getPermissionsByState(state) ==
  CASE state = "awaiting_itemName" -> [allowedCommands |-> {"/cancel"}, allowedCallbacks |-> {}]
    [] state = "waiting_courier_reply" ->
         [allowedCommands |-> {"/cancel"}, allowedCallbacks |-> {"photo_yes", "photo_no", "cancel"}]
    [] state = "awaiting_photo_from_courier" -> [allowedCommands |-> {"/cancel"}, allowedCallbacks |-> {}]
    [] OTHER -> [allowedCommands |-> {"/cancel"}, allowedCallbacks |-> {}]

getDefaultStepDescription(state) ==
  CASE state = "waiting_courier_reply" -> "STEP_COURIER_COMMENT"
    [] state = "awaiting_photo_from_courier" -> "STEP_COURIER_PHOTO"
    [] state = "awaiting_itemName" -> "STEP_ITEM_NAME"
    [] OTHER -> "STEP_DEFAULT"

\* partial.f || d for a field f that is never falsy when present
OrElse(partial, f, d) == IF f \in DOMAIN partial THEN partial[f] ELSE d

\* the partial records callers pass: nothing, or a new state
SvcPartials == {EmptyMap} \cup {[state |-> s] : s \in SvcStates \ {"initial"}}
\* the partial records passed to update: nothing, or the one state a caller
\* moves a session to
SvcUpdatePartials == {EmptyMap, [state |-> "awaiting_photo_from_courier"]}

\* ------------------------------------------------ SessionService: methods
\* Each method maps the pair st = [sessions, timers] to the pair after the call.

SessionService_delete(st, key) ==
  [sessions |-> MapRemove(st.sessions, key),
   timers |-> IF key \in DOMAIN st.sessions
              THEN ClearTimeout(st.timers, st.sessions[key].timer)
              ELSE st.timers]

\* create that leaves the previous session's timer running
SessionService_create_keepsOldTimer(st, key, partial) ==
  LET timer == FreshTimer(st.timers, key)
      state == IF "state" \in DOMAIN partial THEN partial.state ELSE "initial"
      perm == getPermissionsByState(state)
      session == [state |-> state,
                  orderId |-> OrElse(partial, "orderId", Undefined),
                  allowedCommands |-> OrElse(partial, "allowedCommands", perm.allowedCommands),
                  allowedCallbacks |-> OrElse(partial, "allowedCallbacks", perm.allowedCallbacks),
                  timer |-> timer,
                  stepDescription |-> OrElse(partial, "stepDescription", getDefaultStepDescription(state))]
  IN [sessions |-> MapPut(st.sessions, key, session),
      timers |-> SetTimeout(st.timers, timer, key, DIALOG_TIMEOUT)]

SessionService_create(st, key, partial) ==
  LET d == SessionService_delete(st, key)
      timer == FreshTimer(d.timers, key)
      state == IF "state" \in DOMAIN partial THEN partial.state ELSE "initial"
      perm == getPermissionsByState(state)
      session == [state |-> state,
                  orderId |-> OrElse(partial, "orderId", Undefined),
                  allowedCommands |-> OrElse(partial, "allowedCommands", perm.allowedCommands),
                  allowedCallbacks |-> OrElse(partial, "allowedCallbacks", perm.allowedCallbacks),
                  timer |-> timer,
                  stepDescription |-> OrElse(partial, "stepDescription", getDefaultStepDescription(state))]
  IN [sessions |-> MapPut(d.sessions, key, session),
      timers |-> SetTimeout(d.timers, timer, key, DIALOG_TIMEOUT)]

SessionService_clearTimer(st, key) ==
  [sessions |-> st.sessions,
   timers |-> IF key \in DOMAIN st.sessions
              THEN ClearTimeout(st.timers, st.sessions[key].timer)
              ELSE st.timers]

\* update that merges the partial and leaves the running timer alone
SessionService_update_keepsTimer(st, key, partial) ==
  IF key \notin DOMAIN st.sessions THEN st
  ELSE [sessions |-> MapPut(st.sessions, key, Spread(st.sessions[key], partial)),
        timers |-> st.timers]

SessionService_update(st, key, partial) ==
  IF key \notin DOMAIN st.sessions THEN st
  ELSE LET c == SessionService_clearTimer(st, key)
           timer == FreshTimer(c.timers, key)
           updatedSession == Spread(Spread(st.sessions[key], partial), [timer |-> timer])
       IN [sessions |-> MapPut(c.sessions, key, updatedSession),
           timers |-> SetTimeout(c.timers, timer, key, DIALOG_TIMEOUT)]

SessionService_clearAll(st) ==
  [sessions |-> EmptyMap,
   timers |-> [t \in DOMAIN st.timers \ {st.sessions[k].timer : k \in DOMAIN st.sessions} |-> st.timers[t]]]

\* get: <<session>> when the key has a session, << >> for undefined
SessionService_get(st, key) == IF key \in DOMAIN st.sessions THEN <<st.sessions[key]>> ELSE << >>


\* ------------------------------------------- auth session store: methods
\* Each method maps a = [sessions, timers, active] to the record after the call.
\* AuthSession fields: 0 stands for undefined in phone, code, matchedStaff and
\* timeoutId, {} for an undefined possibleStaff, -1 for an undefined
\* lastSmsSentAt (otherwise its age in ticks).  fullname and createdAt are
\* written but never read by the handlers and are left out.
NoTime == 0 - 1

NewAuthSession ==
  [step |-> "awaiting_phone", phone |-> Undefined, code |-> Undefined,
   possibleStaff |-> {}, matchedStaff |-> Undefined, timeoutId |-> Undefined,
   attemptsCount |-> 0, lastSmsSentAt |-> NoTime, lastResendRequestAt |-> NoTime]

SessionManagerService_create(a, chatId) ==
  [a EXCEPT !.sessions = MapPut(a.sessions, chatId, NewAuthSession)]

\* private clearTimeout: cancels the handle kept in the session's own timeoutId field
SessionManagerService_clearTimeout(a, chatId) ==
  IF chatId \in DOMAIN a.sessions /\ a.sessions[chatId].timeoutId # Undefined
  THEN [a EXCEPT !.timers = ClearTimeout(a.timers, a.sessions[chatId].timeoutId),
                 !.sessions = MapPut(a.sessions, chatId,
                                     [a.sessions[chatId] EXCEPT !.timeoutId = Undefined])]
  ELSE a

SessionManagerService_delete(a, chatId) ==
  LET c == SessionManagerService_clearTimeout(a, chatId)
  IN [c EXCEPT !.sessions = MapRemove(c.sessions, chatId)]

\* get: <<copy of the session>>, or << >> for undefined
SessionManagerService_get(a, chatId) ==
  IF chatId \in DOMAIN a.sessions THEN <<a.sessions[chatId]>> ELSE << >>

\* update that writes the partial even when no session exists
SessionManagerService_update_upsert(a, chatId, partial) ==
  [a EXCEPT !.sessions = MapPut(a.sessions, chatId,
      IF chatId \in DOMAIN a.sessions THEN Spread(a.sessions[chatId], partial)
      ELSE Spread(NewAuthSession, partial))]

SessionManagerService_update(a, chatId, partial) ==
  IF chatId \notin DOMAIN a.sessions THEN a
  ELSE [a EXCEPT !.sessions = MapPut(a.sessions, chatId, Spread(a.sessions[chatId], partial))]

\* ------------------------------------------------ SessionTimeoutUtil: methods
SessionTimeoutUtil_clearTimeout(a, chatId) ==
  IF chatId \in DOMAIN a.active
  THEN [a EXCEPT !.timers = ClearTimeout(a.timers, a.active[chatId]),
                 !.active = MapRemove(a.active, chatId)]
  ELSE a

\* setupTimeout that starts a timer without cancelling the previous one
SessionTimeoutUtil_setupTimeout_noCancel(a, chatId) ==
  LET timeoutId == FreshTimer(a.timers, chatId)
  IN [a EXCEPT !.timers = SetTimeout(a.timers, timeoutId, chatId, sessionTimeout),
               !.active = MapPut(a.active, chatId, timeoutId)]

SessionTimeoutUtil_setupTimeout(a, chatId) ==
  LET c == IF chatId \in DOMAIN a.active
           THEN [a EXCEPT !.timers = ClearTimeout(a.timers, a.active[chatId]),
                          !.active = MapRemove(a.active, chatId)]
           ELSE a
      timeoutId == FreshTimer(c.timers, chatId)
  IN [c EXCEPT !.timers = SetTimeout(c.timers, timeoutId, chatId, sessionTimeout),
               !.active = MapPut(c.active, chatId, timeoutId)]

\* the timer callback without the delete of the session
SessionTimeoutUtil_onTimeout_keepsSession(a, chatId) ==
  [a EXCEPT !.active = MapRemove(a.active, chatId)]

\* the callback given to setTimeout in setupTimeout; a is the state once the
\* fired handle has left the pending timers
SessionTimeoutUtil_onTimeout(a, chatId) ==
  LET d == IF SessionManagerService_get(a, chatId) # << >>
           THEN SessionManagerService_delete(a, chatId)
           ELSE a
  IN [d EXCEPT !.active = MapRemove(d.active, chatId)]

\* one tick of the auth clock: pending timers come closer, timestamps age
AuthTick(a) ==
  [a EXCEPT !.timers = [t \in DOMAIN a.timers |-> [a.timers[t] EXCEPT !.left = @ - 1]],
            !.sessions = [c \in DOMAIN a.sessions |->
               [a.sessions[c] EXCEPT
                  !.lastSmsSentAt =
                    IF @ = NoTime \/ @ >= SMS_RESEND_COOLDOWN THEN @ ELSE @ + 1,
                  !.lastResendRequestAt =
                    IF @ = NoTime \/ @ >= RESEND_CODE_SPAM_LIMIT THEN @ ELSE @ + 1]]]

\* --------------------------------------------- stores driven call by call
\* SessionService and SessionManagerService/SessionTimeoutUtil are separate
\* objects that share no state; a behaviour of SpecStores drives one of them
\* (focus) through arbitrary sequences of its public calls.
AuthState == [sessions |-> sessions, timers |-> timers, active |-> activeTimeouts]

AuthSet(a) ==
  /\ sessions' = a.sessions
  /\ timers' = a.timers
  /\ activeTimeouts' = a.active

StorePartials == {[attemptsCount |-> 1], [step |-> "awaiting_code"]}

Called(op, key) ==
  authOp' = [op |-> op, key |-> key, had |-> key \in DOMAIN sessions]

StoreCreate(chatId) ==
  /\ focus = "SessionManagerService"
  /\ AuthSet(SessionManagerService_create(AuthState, chatId))
  /\ Called("create", chatId)
  /\ UNCHANGED <<focus, botVars, initVars, svcVars, dlgVars>>

StoreUpdate(chatId, partial) ==
  /\ focus = "SessionManagerService"
  /\ AuthSet(SessionManagerService_update(AuthState, chatId, partial))
  /\ Called("update", chatId)
  /\ UNCHANGED <<focus, botVars, initVars, svcVars, dlgVars>>

StoreDelete(chatId) ==
  /\ focus = "SessionManagerService"
  /\ AuthSet(SessionManagerService_delete(AuthState, chatId))
  /\ Called("delete", chatId)
  /\ UNCHANGED <<focus, botVars, initVars, svcVars, dlgVars>>

StoreSetupTimeout(chatId) ==
  /\ focus = "SessionManagerService"
  /\ FreeHandles(SessionTimeoutUtil_clearTimeout(AuthState, chatId).timers, chatId) # {}
  /\ AuthSet(SessionTimeoutUtil_setupTimeout(AuthState, chatId))
  /\ Called("setupTimeout", chatId)
  /\ UNCHANGED <<focus, botVars, initVars, svcVars, dlgVars>>

StoreClearTimeout(chatId) ==
  /\ focus = "SessionManagerService"
  /\ AuthSet(SessionTimeoutUtil_clearTimeout(AuthState, chatId))
  /\ Called("clearTimeout", chatId)
  /\ UNCHANGED <<focus, botVars, initVars, svcVars, dlgVars>>

StoreTimerFire(t) ==
  /\ focus = "SessionManagerService"
  /\ t \in DOMAIN timers
  /\ timers[t].left = 0
  /\ AuthSet(SessionTimeoutUtil_onTimeout([AuthState EXCEPT !.timers = MapRemove(timers, t)],
                                          timers[t].key))
  /\ Called("fire", timers[t].key)
  /\ UNCHANGED <<focus, botVars, initVars, svcVars, dlgVars>>

StoreTick ==
  /\ focus = "SessionManagerService"
  /\ timers # EmptyMap
  /\ \A t \in DOMAIN timers : timers[t].left > 0
  /\ AuthSet(AuthTick(AuthState))
  /\ Called("tick", 0)
  /\ UNCHANGED <<focus, botVars, initVars, svcVars, dlgVars>>

AuthStoreInit ==
  /\ sessions = EmptyMap
  /\ activeTimeouts = EmptyMap
  /\ timers = EmptyMap
  /\ authOp = [op |-> "init", key |-> 0, had |-> FALSE]

\* ------------------------------------------------ SessionService: actions
\* the timers of SessionService run when the store is exercised alone and when
\* the delivery bot uses it
InSessionService ==
  focus \in {"SessionService", "DeliveryBot", "SessionGate", "DeliveryBotOrders", "DeliveryBotRedelivered"}
\* create and update are called with any partial when the store is exercised
\* alone and when the gate is exercised on the sessions of any dialogue
InSessionApi == focus \in {"SessionService", "SessionGate"}
SvcState == [sessions |-> svcSessions, timers |-> svcTimers]

SvcSet(st, op, key) ==
  /\ svcSessions' = st.sessions
  /\ svcTimers' = st.timers
  /\ svcOp' = [op |-> op, key |-> key, had |-> key \in DOMAIN svcSessions]

SvcCreate(key, partial) ==
  /\ InSessionApi
  /\ UNCHANGED <<focus, botVars, initVars, authVars, dlgVars>>
  /\ FreeHandles(SessionService_delete(SvcState, key).timers, key) # {}
  /\ SvcSet(SessionService_create(SvcState, key, partial), "create", key)

SvcUpdate(key, partial) ==
  /\ InSessionApi
  /\ UNCHANGED <<focus, botVars, initVars, authVars, dlgVars>>
  /\ FreeHandles(SessionService_clearTimer(SvcState, key).timers, key) # {}
  /\ SvcSet(SessionService_update(SvcState, key, partial), "update", key)

SvcDelete(key) ==
  /\ focus = "SessionService"
  /\ UNCHANGED <<focus, botVars, initVars, authVars, dlgVars>>
  /\ SvcSet(SessionService_delete(SvcState, key), "delete", key)

SvcClearAll ==
  /\ focus = "SessionService"
  /\ UNCHANGED <<focus, botVars, initVars, authVars, dlgVars>>
  /\ SvcSet(SessionService_clearAll(SvcState), "clearAll", 0)

\* the callback of setTimeout(() => this.delete(key), DIALOG_TIMEOUT)
SvcTimerFire(t) ==
  /\ InSessionService
  /\ UNCHANGED <<focus, botVars, initVars, authVars, dlgVars>>
  /\ t \in DOMAIN svcTimers
  /\ svcTimers[t].left = 0
  /\ SvcSet(SessionService_delete([sessions |-> svcSessions, timers |-> MapRemove(svcTimers, t)],
                                  svcTimers[t].key),
            "fire", svcTimers[t].key)

SvcTick ==
  /\ InSessionService
  /\ UNCHANGED <<focus, botVars, initVars, authVars, dlgVars>>
  /\ svcTimers # EmptyMap
  /\ \A t \in DOMAIN svcTimers : svcTimers[t].left > 0
  /\ svcTimers' = [t \in DOMAIN svcTimers |-> [svcTimers[t] EXCEPT !.left = @ - 1]]
  /\ svcOp' = [op |-> "tick", key |-> 0, had |-> FALSE]
  /\ UNCHANGED svcSessions

SvcInit ==
  /\ svcSessions = EmptyMap
  /\ svcTimers = EmptyMap
  /\ svcOp = [op |-> "init", key |-> 0, had |-> FALSE]

SvcNext ==
  \/ \E key \in Keys, partial \in SvcPartials : SvcCreate(key, partial)
  \/ \E key \in Keys, partial \in SvcUpdatePartials : SvcUpdate(key, partial)
  \/ \E key \in Keys : SvcDelete(key)
  \/ SvcClearAll
  \/ \E key \in Keys : \E t \in Handles(key) : SvcTimerFire(t)
  \/ SvcTick

StoreNext ==
  \/ \E chatId \in Keys : StoreCreate(chatId)
  \/ \E chatId \in Keys, partial \in StorePartials : StoreUpdate(chatId, partial)
  \/ \E chatId \in Keys : StoreDelete(chatId)
  \/ \E chatId \in Keys : StoreSetupTimeout(chatId)
  \/ \E chatId \in Keys : StoreClearTimeout(chatId)
  \/ \E chatId \in Keys : \E t \in Handles(chatId) : StoreTimerFire(t)
  \/ StoreTick

\* ==================================================== the phone-auth dialogue
\* One chat is followed: sessions, timers and handler runs of different chats
\* share nothing but the staffMax table.
Chats == {1}

\* --- the staff directory (prisma.staff) and the texts a user can send
\* phone 1 belongs to staff 1; phone 2 to staff 2 and 3; phone 3 to nobody;
\* phone 4 is a number that fails the phone format (no leading +).
ValidPhones == {1, 2, 3}
ContactPhones == {1, 2, 3, 4}
\* findStaffByPhone: the staff whose phoneNumber is phone (an error yields [])
findStaffByPhone(phone) ==
  CASE phone = 1 -> {1}
    [] phone = 2 -> {2, 3}
    [] OTHER -> {}
\* staff 3 already has an identity link when the bot starts
InitialStaffMax == {3}

\* generateCode: Math.floor(1000 + Math.random() * 9000), two of its values
GenCodes == {1234, 5678}
\* a text: t is its kind, v its content; a name text has a letter case.
\* code texts are strings of four digits, v is their parseInt
Text(t, v, case) == [t |-> t, v |-> v, case |-> case]
PhoneTexts == {Text("phone", p, "none") : p \in ValidPhones}
CodeTexts == {Text("code", c, "none") : c \in GenCodes}
NameTexts == {Text("name", 2, "mixed"), Text("name", 2, "upper"), Text("name", 3, "mixed")}
\* the text "/cancel": to MessageHandler a text like any other
CancelText == Text("cancel", 0, "none")
OtherTexts == {Text("junk", 0, "none"), Text("empty", 0, "none"), CancelText}
Texts == PhoneTexts \cup CodeTexts \cup NameTexts \cup OtherTexts

isValidPhone(text) == text.t = "phone"
isValidCodeInput(text) == text.t = "code"
toLowerCase(text) == IF text.t = "name" THEN [text EXCEPT !.case = "lower"] ELSE text
\* `${staff.firstName} ${staff.lastName}` as the directory spells it
StaffName(staff) == Text("name", staff, "mixed")

\* --- what a step reports in `last`
\* ev: the event the step handled (a contact, a text, a button callback, the
\* answer a suspended run awaited, a due timer, the passing of time); h: the
\* handler that ran; reply: the message sent; rem: the attempts it reports as left;
\* text: the code a text carried; correct: the code step found it equal to the
\* stored code; upd: update was called on a stored session; next: next() was called
Did(ev, h, chat, reply) ==
  [ev |-> ev, h |-> h, chat |-> chat, reply |-> reply, rem |-> 0 - 1, text |-> 0,
   correct |-> FALSE, upd |-> FALSE, next |-> FALSE]
CodeOf(inputText) == IF inputText.t = "code" THEN inputText.v ELSE 0
NoStats == [links |-> 0, successes |-> 0, accepted |-> 0]

Run(pc, chat, flow, phone, staff, code) ==
  [pc |-> pc, chat |-> chat, flow |-> flow, phone |-> phone, staff |-> staff, code |-> code]
Suspend(r) == runs' = runs (+) SetToBag({r})
Resume(r, rr) == runs' = (runs (-) SetToBag({r})) (+) SetToBag({rr})
Finish(r) == runs' = runs (-) SetToBag({r})
\* Under "AuthModule" at most MaxRuns handler runs are suspended at once; under
\* "AuthModuleRedelivered" one more, so that with MaxRuns = 1 an update can be
\* delivered again while the handler of its first delivery is suspended.
\* Under "AuthModuleResend" the /resend_code command is wired in as well.
\* Under "AuthModuleFaults" a step handler may throw and linkIdMax may fail.
InDialogue ==
  focus \in {"AuthModule", "AuthModuleRedelivered", "AuthModuleResend", "AuthModuleFaults"}
RunLimit == IF focus = "AuthModuleRedelivered" THEN MaxRuns + 1 ELSE MaxRuns
CanStart == BagCardinality(runs) < RunLimit
Has(chat) == chat \in DOMAIN sessions

\* sendAuthCode that stores the code and the time but leaves attemptsCount
sendAuthCode_keepsAttempts(a, chatId, newCode) ==
  SessionManagerService_update(a, chatId,
    [code |-> newCode, lastSmsSentAt |-> 0])

\* --- SmsSenderUtil.sendAuthCode up to its await of smsRu.sendSms
sendAuthCode(a, chatId, newCode) ==
  SessionManagerService_update(a, chatId,
    [code |-> newCode, lastSmsSentAt |-> 0, attemptsCount |-> 0])

\* handleCooldown that takes the cooldown as over once one tick has passed
handleCooldown_oneTick(session) ==
  session.lastSmsSentAt # NoTime /\ session.lastSmsSentAt < 1

\* --- AuthStartHandler.handleCooldown: lastSmsSentAt ?? 0 is the epoch, long ago
handleCooldown(session) ==
  session.lastSmsSentAt # NoTime /\ session.lastSmsSentAt < SMS_RESEND_COOLDOWN

\* --- AuthStartHandler: a message_created that carries a contact
AuthStart(chatId, tel) ==
  /\ InDialogue
  /\ IF Has(chatId) /\ handleCooldown(sessions[chatId])
     THEN /\ last' = Did("contact", "authStart", chatId, "AUTH_START_COOLDOWN")
          /\ UNCHANGED <<sessions, activeTimeouts, timers, stats>>
     ELSE /\ FreeHandles(SessionTimeoutUtil_clearTimeout(AuthState, chatId).timers, chatId) # {}
          /\ AuthSet(SessionTimeoutUtil_setupTimeout(
                       SessionManagerService_update(
                         SessionManagerService_create(AuthState, chatId),
                         chatId, [phone |-> tel]),
                       chatId))
          /\ stats' = [stats EXCEPT ![chatId] = NoStats]
          /\ last' = [Did("contact", "authStart", chatId, "CONTACT_CONFIRM") EXCEPT !.upd = TRUE]
  /\ UNCHANGED <<focus, botVars, initVars, svcVars, authOp, runs, staffMax>>

\* --- PhoneAuthFlowHandler.handle up to its first await (findStaffByPhone)
StartPhoneFlow(chatId, phone) == Suspend(Run("findStaff", chatId, "phone", phone, Undefined, Undefined))

\* --- PhoneConfirmationHandler.phoneConfirmation: the contactOk / contactEr buttons
PhoneConfirmation(chatId, isConfirmed) ==
  /\ InDialogue
  /\ CanStart
  /\ IF ~Has(chatId) \/ sessions[chatId].phone = Undefined
     THEN /\ last' = Did("callback", "callback", chatId, "")
          /\ UNCHANGED runs
     ELSE IF isConfirmed /\ sessions[chatId].phone \in ValidPhones
          THEN /\ StartPhoneFlow(chatId, sessions[chatId].phone)
               /\ last' = Did("callback", "callback", chatId, "")
          ELSE /\ last' = Did("callback", "callback", chatId, "PHONE")
               /\ UNCHANGED runs
  /\ UNCHANGED <<focus, botVars, initVars, svcVars, authVars, staffMax, stats>>

\* FullnameStep that compares the names as typed, without toLowerCase
FullnameStep_caseSensitive(chatId, inputText) ==
  LET session == sessions[chatId]
      fullname == inputText
      found == {staff \in session.possibleStaff : StaffName(staff) = fullname}
  IN IF found = {}
     THEN /\ last' = Did("text", "fullname", chatId, "FULLNAME_NOT_FOUND")
          /\ UNCHANGED <<runs, sessions, activeTimeouts, timers, stats>>
     ELSE /\ \E matchedStaff \in found :
               Suspend(Run("hasIdMax", chatId, "fullname", Undefined, matchedStaff, Undefined))
          /\ last' = Did("text", "fullname", chatId, "")
          /\ UNCHANGED <<sessions, activeTimeouts, timers, stats>>

\* --- FullnameStepHandler.handle up to its first await (hasIdMax)
FullnameStep(chatId, inputText) ==
  LET session == sessions[chatId]
      fullname == toLowerCase(inputText)
      found == {staff \in session.possibleStaff : toLowerCase(StaffName(staff)) = fullname}
  IN IF found = {}
     THEN /\ last' = Did("text", "fullname", chatId, "FULLNAME_NOT_FOUND")
          /\ UNCHANGED <<runs, sessions, activeTimeouts, timers, stats>>
     ELSE /\ \E matchedStaff \in found :
               Suspend(Run("hasIdMax", chatId, "fullname", Undefined, matchedStaff, Undefined))
          /\ last' = Did("text", "fullname", chatId, "")
          /\ UNCHANGED <<sessions, activeTimeouts, timers, stats>>

\* CodeStep with the limit test > in place of >=
CodeStep_limitExclusive(chatId, inputText) ==
  LET session == sessions[chatId]
      code == inputText.v
      attemptsCount == session.attemptsCount + 1
      counted == SessionManagerService_update(AuthState, chatId, [attemptsCount |-> attemptsCount])
      did(reply) == [Did("text", "code", chatId, reply) EXCEPT
                       !.text = CodeOf(inputText),
                       !.correct = isValidCodeInput(inputText) /\ session.code = code]
  IN IF ~isValidCodeInput(inputText)
     THEN /\ last' = did("CODE_INVALID")
          /\ UNCHANGED <<runs, sessions, activeTimeouts, timers, stats>>
     ELSE IF session.matchedStaff = Undefined
     THEN /\ last' = did("STAFF_NOT_FOUND")
          /\ Suspend(Run("thenDelete", chatId, "code", Undefined, Undefined, Undefined))
          /\ UNCHANGED <<sessions, activeTimeouts, timers, stats>>
     ELSE IF attemptsCount > MAX_ATTEMPTS
     THEN /\ AuthSet(SessionManagerService_delete(counted, chatId))
          /\ last' = [did("ATTEMPTS_EXCEEDED") EXCEPT !.upd = TRUE]
          /\ UNCHANGED <<runs, stats>>
     ELSE IF session.code = code
     THEN /\ AuthSet(counted)
          /\ Suspend(Run("linkIdMax", chatId, "code", Undefined, session.matchedStaff, code))
          /\ stats' = [stats EXCEPT ![chatId].links = @ + 1]
          /\ last' = [did("") EXCEPT !.upd = TRUE]
     ELSE /\ AuthSet(counted)
          /\ last' = [did("ATTEMPT_FAILED") EXCEPT !.upd = TRUE, !.rem = MAX_ATTEMPTS - attemptsCount]
          /\ UNCHANGED <<runs, stats>>

\* CodeStep that counts the attempt before it tests the format of the text
CodeStep_countsBeforeFormat(chatId, inputText) ==
  LET session == sessions[chatId]
      code == inputText.v
      attemptsCount == session.attemptsCount + 1
      counted == SessionManagerService_update(AuthState, chatId, [attemptsCount |-> attemptsCount])
      did(reply) == [Did("text", "code", chatId, reply) EXCEPT
                       !.text = CodeOf(inputText),
                       !.correct = isValidCodeInput(inputText) /\ session.code = code]
  IN IF ~isValidCodeInput(inputText)
     THEN /\ AuthSet(counted)
          /\ last' = did("CODE_INVALID")
          /\ UNCHANGED <<runs, stats>>
     ELSE IF session.matchedStaff = Undefined
     THEN /\ last' = did("STAFF_NOT_FOUND")
          /\ Suspend(Run("thenDelete", chatId, "code", Undefined, Undefined, Undefined))
          /\ UNCHANGED <<sessions, activeTimeouts, timers, stats>>
     ELSE IF attemptsCount >= MAX_ATTEMPTS
     THEN /\ AuthSet(SessionManagerService_delete(counted, chatId))
          /\ last' = [did("ATTEMPTS_EXCEEDED") EXCEPT !.upd = TRUE]
          /\ UNCHANGED <<runs, stats>>
     ELSE IF session.code = code
     THEN /\ AuthSet(counted)
          /\ Suspend(Run("linkIdMax", chatId, "code", Undefined, session.matchedStaff, code))
          /\ stats' = [stats EXCEPT ![chatId].links = @ + 1]
          /\ last' = [did("") EXCEPT !.upd = TRUE]
     ELSE /\ AuthSet(counted)
          /\ last' = [did("ATTEMPT_FAILED") EXCEPT !.upd = TRUE, !.rem = MAX_ATTEMPTS - attemptsCount]
          /\ UNCHANGED <<runs, stats>>

\* --- CodeStepHandler.handle up to its await of linkIdMax.  A message_created
\* event always names its sender, so ctx.user.user_id is present.
CodeStep(chatId, inputText) ==
  LET session == sessions[chatId]
      code == inputText.v
      attemptsCount == session.attemptsCount + 1
      counted == SessionManagerService_update(AuthState, chatId, [attemptsCount |-> attemptsCount])
      did(reply) == [Did("text", "code", chatId, reply) EXCEPT
                       !.text = CodeOf(inputText),
                       !.correct = isValidCodeInput(inputText) /\ session.code = code]
  IN IF ~isValidCodeInput(inputText)
     THEN /\ last' = did("CODE_INVALID")
          /\ UNCHANGED <<runs, sessions, activeTimeouts, timers, stats>>
     ELSE IF session.matchedStaff = Undefined
     THEN /\ last' = did("STAFF_NOT_FOUND")
          /\ Suspend(Run("thenDelete", chatId, "code", Undefined, Undefined, Undefined))
          /\ UNCHANGED <<sessions, activeTimeouts, timers, stats>>
     ELSE IF attemptsCount >= MAX_ATTEMPTS
     THEN /\ AuthSet(SessionManagerService_delete(counted, chatId))
          /\ last' = [did("ATTEMPTS_EXCEEDED") EXCEPT !.upd = TRUE]
          /\ UNCHANGED <<runs, stats>>
     ELSE IF session.code = code
     THEN /\ AuthSet(counted)
          /\ Suspend(Run("linkIdMax", chatId, "code", Undefined, session.matchedStaff, code))
          /\ stats' = [stats EXCEPT ![chatId].links = @ + 1]
          /\ last' = [did("") EXCEPT !.upd = TRUE]
     ELSE /\ AuthSet(counted)
          /\ last' = [did("ATTEMPT_FAILED") EXCEPT !.upd = TRUE, !.rem = MAX_ATTEMPTS - attemptsCount]
          /\ UNCHANGED <<runs, stats>>

\* --- MessageHandler.handleMessage: a message_created without a contact
HandleMessage(chatId, inputText) ==
  /\ InDialogue
  /\ CanStart
  /\ IF ~Has(chatId)
     THEN /\ last' = [Did("text", "message", chatId, "") EXCEPT !.next = TRUE, !.text = CodeOf(inputText)]
          /\ UNCHANGED <<runs, sessions, activeTimeouts, timers, stats>>
     ELSE IF inputText.t = "empty"
     THEN /\ last' = Did("text", "message", chatId, "PHONE")
          /\ UNCHANGED <<runs, sessions, activeTimeouts, timers, stats>>
     ELSE IF sessions[chatId].step = "awaiting_phone" /\ ~isValidPhone(inputText)
     THEN /\ last' = Did("text", "message", chatId, "PHONE")
          /\ UNCHANGED <<runs, sessions, activeTimeouts, timers, stats>>
     ELSE CASE sessions[chatId].step = "awaiting_phone" ->
                 /\ StartPhoneFlow(chatId, inputText.v)
                 /\ last' = Did("text", "phone", chatId, "")
                 /\ UNCHANGED <<sessions, activeTimeouts, timers, stats>>
            [] sessions[chatId].step = "awaiting_fullname" -> FullnameStep(chatId, inputText)
            [] sessions[chatId].step = "awaiting_code" -> CodeStep(chatId, inputText)
  /\ UNCHANGED <<focus, botVars, initVars, svcVars, authOp, staffMax>>

\* --- PhoneAuthFlowHandler.handle after findStaffByPhone has answered
AfterFindStaff(r) ==
  LET staffList == findStaffByPhone(r.phone)
      stored == SessionManagerService_update(AuthState, r.chat,
                  [possibleStaff |-> staffList, phone |-> r.phone])
  IN
  /\ InDialogue
  /\ r \in BagToSet(runs) /\ r.pc = "findStaff"
  /\ IF staffList = {}
     THEN /\ Resume(r, [r EXCEPT !.pc = "thenDelete", !.phone = Undefined])
          /\ last' = Did("resume", "phone", r.chat, "PHONE_NOT_FOUND")
          /\ UNCHANGED <<sessions, activeTimeouts, timers>>
     ELSE IF Cardinality(staffList) = 1
     THEN /\ AuthSet(stored)
          /\ Resume(r, [r EXCEPT !.pc = "hasIdMax", !.phone = Undefined, !.staff = CHOOSE x \in staffList : TRUE])
          /\ last' = [Did("resume", "phone", r.chat, "") EXCEPT !.upd = Has(r.chat)]
     ELSE /\ AuthSet(SessionManagerService_update(stored, r.chat, [step |-> "awaiting_fullname"]))
          /\ Finish(r)
          /\ last' = [Did("resume", "phone", r.chat, "FULLNAME_PROMPT") EXCEPT !.upd = Has(r.chat)]
  /\ UNCHANGED <<focus, botVars, initVars, svcVars, authOp, staffMax, stats>>

\* --- both flows after hasIdMax has answered: the reply or sendAuthCode
AfterHasIdMax(r, newCode) ==
  /\ InDialogue
  /\ r \in BagToSet(runs) /\ r.pc = "hasIdMax"
  /\ IF r.staff \in staffMax
     THEN /\ Resume(r, [r EXCEPT !.pc = "thenDelete"])
          /\ last' = Did("resume", r.flow, r.chat, "ALREADY_REGISTERED")
          /\ UNCHANGED <<sessions, activeTimeouts, timers>>
     ELSE /\ AuthSet(sendAuthCode(AuthState, r.chat, newCode))
          /\ Resume(r, [r EXCEPT !.pc = "sendSms"])
          /\ last' = [Did("resume", r.flow, r.chat, "") EXCEPT !.upd = Has(r.chat)]
  /\ UNCHANGED <<focus, botVars, initVars, svcVars, authOp, staffMax, stats>>

\* AfterSendSms that stores the matched staff but not the new step
AfterSendSms_keepsStep(r, ok) ==
  /\ InDialogue
  /\ r \in BagToSet(runs) /\ r.pc = "sendSms"
  /\ IF ok
     THEN /\ AuthSet(SessionManagerService_update(AuthState, r.chat,
                       [matchedStaff |-> r.staff]))
          /\ Finish(r)
          /\ last' = [Did("resume", r.flow, r.chat, "SMS_SENT") EXCEPT !.upd = Has(r.chat)]
     ELSE /\ Resume(r, [r EXCEPT !.pc = "thenDelete"])
          /\ last' = Did("resume", r.flow, r.chat, "SMS_SEND_ERROR")
          /\ UNCHANGED <<sessions, activeTimeouts, timers>>
  /\ UNCHANGED <<focus, botVars, initVars, svcVars, authOp, staffMax, stats>>

\* --- both flows after smsRu.sendSms has answered (ok: status OK)
AfterSendSms(r, ok) ==
  /\ InDialogue
  /\ r \in BagToSet(runs) /\ r.pc = "sendSms"
  /\ IF ok
     THEN /\ AuthSet(SessionManagerService_update(AuthState, r.chat,
                       [matchedStaff |-> r.staff, step |-> "awaiting_code"]))
          /\ Finish(r)
          /\ last' = [Did("resume", r.flow, r.chat, "SMS_SENT") EXCEPT !.upd = Has(r.chat)]
     ELSE /\ Resume(r, [r EXCEPT !.pc = "thenDelete"])
          /\ last' = Did("resume", r.flow, r.chat, "SMS_SEND_ERROR")
          /\ UNCHANGED <<sessions, activeTimeouts, timers>>
  /\ UNCHANGED <<focus, botVars, initVars, svcVars, authOp, staffMax, stats>>

\* --- a handler that awaited its reply and then deletes the session
AfterReplyDelete(r) ==
  /\ InDialogue
  /\ r \in BagToSet(runs) /\ r.pc = "thenDelete"
  /\ AuthSet(SessionManagerService_delete(AuthState, r.chat))
  /\ Finish(r)
  /\ last' = Did("resume", r.flow, r.chat, "")
  /\ UNCHANGED <<focus, botVars, initVars, svcVars, authOp, staffMax, stats>>

\* AfterLinkIdMax without the delete of the session
AfterLinkIdMax_keepsSession(r) ==
  /\ InDialogue
  /\ r \in BagToSet(runs) /\ r.pc = "linkIdMax"
  /\ staffMax' = staffMax \cup {r.staff}
  /\ UNCHANGED <<sessions, activeTimeouts, timers>>
  /\ Finish(r)
  /\ stats' = [stats EXCEPT ![r.chat].successes = @ + 1, ![r.chat].accepted = r.code]
  /\ last' = [Did("resume", "code", r.chat, "SUCCESS_AUTH") EXCEPT !.correct = TRUE]
  /\ UNCHANGED <<focus, botVars, initVars, svcVars, authOp>>

\* --- CodeStepHandler.handle after linkIdMax has answered
AfterLinkIdMax(r) ==
  /\ InDialogue
  /\ r \in BagToSet(runs) /\ r.pc = "linkIdMax"
  /\ staffMax' = staffMax \cup {r.staff}
  /\ AuthSet(SessionManagerService_delete(AuthState, r.chat))
  /\ Finish(r)
  /\ stats' = [stats EXCEPT ![r.chat].successes = @ + 1, ![r.chat].accepted = r.code]
  /\ last' = [Did("resume", "code", r.chat, "SUCCESS_AUTH") EXCEPT !.correct = TRUE]
  /\ UNCHANGED <<focus, botVars, initVars, svcVars, authOp>>

\* ResendCodeHandler.handleResendCode without the test of the step
ResendCode_anyStep(chatId, newCode) ==
  /\ focus = "AuthModuleResend"
  /\ CanStart
  /\ IF ~Has(chatId)
     THEN /\ last' = Did("command", "resend", chatId, "SESSION_NOT_FOUND")
          /\ UNCHANGED <<runs, sessions, activeTimeouts, timers>>
     ELSE IF sessions[chatId].lastResendRequestAt # NoTime
             /\ sessions[chatId].lastResendRequestAt < RESEND_CODE_SPAM_LIMIT
     THEN /\ last' = Did("command", "resend", chatId, "RESEND_SPAM_LIMIT")
          /\ UNCHANGED <<runs, sessions, activeTimeouts, timers>>
     ELSE IF sessions[chatId].lastSmsSentAt # NoTime
             /\ sessions[chatId].lastSmsSentAt < SMS_RESEND_COOLDOWN
     THEN /\ last' = Did("command", "resend", chatId, "SMS_COOLDOWN")
          /\ UNCHANGED <<runs, sessions, activeTimeouts, timers>>
     ELSE /\ AuthSet(sendAuthCode(
                       SessionManagerService_update(AuthState, chatId, [lastResendRequestAt |-> 0]),
                       chatId, newCode))
          /\ Suspend(Run("resendSms", chatId, "resend", sessions[chatId].phone, Undefined, Undefined))
          /\ last' = [Did("command", "resend", chatId, "") EXCEPT !.upd = TRUE]
  /\ UNCHANGED <<focus, botVars, initVars, svcVars, authOp, staffMax, stats>>

\* --- ResendCodeHandler.handleResendCode up to its await of smsRu.sendSms: the
\* command /resend_code.  lastResendRequestAt ?? 0 and lastSmsSentAt ?? 0 are
\* the epoch, long ago.
ResendCode(chatId, newCode) ==
  /\ focus = "AuthModuleResend"
  /\ CanStart
  /\ IF ~Has(chatId)
     THEN /\ last' = Did("command", "resend", chatId, "SESSION_NOT_FOUND")
          /\ UNCHANGED <<runs, sessions, activeTimeouts, timers>>
     ELSE IF sessions[chatId].step # "awaiting_code"
     THEN /\ last' = Did("command", "resend", chatId, "STEP_MISMATCH")
          /\ UNCHANGED <<runs, sessions, activeTimeouts, timers>>
     ELSE IF sessions[chatId].lastResendRequestAt # NoTime
             /\ sessions[chatId].lastResendRequestAt < RESEND_CODE_SPAM_LIMIT
     THEN /\ last' = Did("command", "resend", chatId, "RESEND_SPAM_LIMIT")
          /\ UNCHANGED <<runs, sessions, activeTimeouts, timers>>
     ELSE IF sessions[chatId].lastSmsSentAt # NoTime
             /\ sessions[chatId].lastSmsSentAt < SMS_RESEND_COOLDOWN
     THEN /\ last' = Did("command", "resend", chatId, "SMS_COOLDOWN")
          /\ UNCHANGED <<runs, sessions, activeTimeouts, timers>>
     ELSE /\ AuthSet(sendAuthCode(
                       SessionManagerService_update(AuthState, chatId, [lastResendRequestAt |-> 0]),
                       chatId, newCode))
          /\ Suspend(Run("resendSms", chatId, "resend", sessions[chatId].phone, Undefined, Undefined))
          /\ last' = [Did("command", "resend", chatId, "") EXCEPT !.upd = TRUE]
  /\ UNCHANGED <<focus, botVars, initVars, svcVars, authOp, staffMax, stats>>

\* AfterResendSms that ends the run after the error reply, without the delete
AfterResendSms_keepsSession(r, ok) ==
  /\ focus = "AuthModuleResend"
  /\ r \in BagToSet(runs) /\ r.pc = "resendSms"
  /\ Finish(r)
  /\ last' = Did("resume", "resend", r.chat, IF ok THEN "NEW_SMS_SENT" ELSE "SMS_SEND_ERROR")
  /\ UNCHANGED <<focus, botVars, initVars, svcVars, authVars, staffMax, stats>>

\* --- ResendCodeHandler.handleResendCode after smsRu.sendSms has answered
AfterResendSms(r, ok) ==
  /\ focus = "AuthModuleResend"
  /\ r \in BagToSet(runs) /\ r.pc = "resendSms"
  /\ IF ok
     THEN /\ Finish(r)
          /\ last' = Did("resume", "resend", r.chat, "NEW_SMS_SENT")
     ELSE /\ Resume(r, [r EXCEPT !.pc = "thenDelete", !.phone = Undefined])
          /\ last' = Did("resume", "resend", r.chat, "SMS_SEND_ERROR")
  /\ UNCHANGED <<focus, botVars, initVars, svcVars, authVars, staffMax, stats>>

\* --- MessageHandler.handleMessage when the step handler it dispatched to
\* throws: the catch sends the generic error reply, awaits it, then deletes
HandleMessageThrows(chatId, inputText) ==
  /\ focus = "AuthModuleFaults"
  /\ CanStart
  /\ Has(chatId)
  /\ inputText.t # "empty"
  /\ ~(sessions[chatId].step = "awaiting_phone" /\ ~isValidPhone(inputText))
  /\ Suspend(Run("thenDelete", chatId, "catch", Undefined, Undefined, Undefined))
  /\ last' = Did("text", "message", chatId, "GENERIC_ERROR")
  /\ UNCHANGED <<focus, botVars, initVars, svcVars, authVars, staffMax, stats>>

\* --- PhoneConfirmationHandler.phoneConfirmation when PhoneAuthFlowHandler
\* throws: nothing catches, the exception leaves the handler
PhoneConfirmationThrows(chatId) ==
  /\ focus = "AuthModuleFaults"
  /\ CanStart
  /\ Has(chatId)
  /\ sessions[chatId].phone \in ValidPhones
  /\ last' = Did("callback", "callback", chatId, "")
  /\ UNCHANGED <<focus, botVars, initVars, svcVars, authVars, runs, staffMax, stats>>

\* --- CodeStepHandler.handle after linkIdMax has answered false: the result
\* is not looked at
AfterLinkIdMaxFailed(r) ==
  /\ focus = "AuthModuleFaults"
  /\ r \in BagToSet(runs) /\ r.pc = "linkIdMax"
  /\ AuthSet(SessionManagerService_delete(AuthState, r.chat))
  /\ Finish(r)
  /\ stats' = [stats EXCEPT ![r.chat].successes = @ + 1, ![r.chat].accepted = r.code]
  /\ last' = [Did("resume", "code", r.chat, "SUCCESS_AUTH") EXCEPT !.correct = TRUE]
  /\ UNCHANGED <<focus, botVars, initVars, svcVars, authOp, staffMax>>

\* --- the callback of the timer started by setupTimeout
TimerFire(t) ==
  /\ InDialogue
  /\ t \in DOMAIN timers
  /\ timers[t].left = 0
  /\ AuthSet(SessionTimeoutUtil_onTimeout([AuthState EXCEPT !.timers = MapRemove(timers, t)],
                                          timers[t].key))
  /\ last' = Did("timer", "timer", timers[t].key, "")
  /\ UNCHANGED <<focus, botVars, initVars, svcVars, authOp, runs, staffMax, stats>>

Tick ==
  /\ InDialogue
  /\ timers # EmptyMap
  /\ \A t \in DOMAIN timers : timers[t].left > 0
  /\ AuthSet(AuthTick(AuthState))
  /\ last' = Did("tick", "tick", 0, "")
  /\ UNCHANGED <<focus, botVars, initVars, svcVars, authOp, runs, staffMax, stats>>

CourierInit ==
  /\ problemOrders = [o \in Orders |-> NoComment]
  /\ problemOrderPhotos = << >>

InitChatInit ==
  /\ initSessions = EmptyMap
  /\ initTimers = EmptyMap
  /\ seenEvents = EmptyMap

DialogueInit ==
  /\ runs = EmptyBag
  /\ staffMax = InitialStaffMax
  /\ stats = [c \in Chats |-> NoStats]
  /\ last = Did("init", "init", 0, "")

Init ==
  /\ focus = "AuthModule"
  /\ SvcInit
  /\ AuthStoreInit
  /\ DialogueInit
  /\ CourierInit
  /\ InitChatInit

InitRedelivery ==
  /\ focus = "AuthModuleRedelivered"
  /\ SvcInit
  /\ AuthStoreInit
  /\ DialogueInit
  /\ CourierInit
  /\ InitChatInit

Next ==
  \/ \E chatId \in Chats, tel \in ContactPhones : AuthStart(chatId, tel)
  \/ \E chatId \in Chats, isConfirmed \in BOOLEAN : PhoneConfirmation(chatId, isConfirmed)
  \/ \E chatId \in Chats, inputText \in Texts : HandleMessage(chatId, inputText)
  \/ \E r \in BagToSet(runs) : AfterFindStaff(r)
  \/ \E r \in BagToSet(runs), newCode \in GenCodes : AfterHasIdMax(r, newCode)
  \/ \E r \in BagToSet(runs), ok \in BOOLEAN : AfterSendSms(r, ok)
  \/ \E r \in BagToSet(runs) : AfterReplyDelete(r)
  \/ \E r \in BagToSet(runs) : AfterLinkIdMax(r)
  \/ \E chatId \in Chats : \E t \in Handles(chatId) : TimerFire(t)
  \/ Tick

Spec == Init /\ [][Next]_vars

SpecRedelivery == InitRedelivery /\ [][Next]_vars

\* --- the dialogue with time that goes on: the clock keeps ticking and Node
\* runs the callback of a timer that is due
SpecTimed ==
  /\ Init
  /\ [][Next]_vars
  /\ WF_vars(Tick)
  /\ WF_vars(\E chatId \in Chats : \E t \in Handles(chatId) : TimerFire(t))

\* --- the dialogue with the /resend_code command wired in as well
InitResend ==
  /\ focus = "AuthModuleResend"
  /\ SvcInit
  /\ AuthStoreInit
  /\ DialogueInit
  /\ CourierInit
  /\ InitChatInit

NextResend ==
  \/ Next
  \/ \E chatId \in Chats, newCode \in GenCodes : ResendCode(chatId, newCode)
  \/ \E r \in BagToSet(runs), ok \in BOOLEAN : AfterResendSms(r, ok)

SpecResend == InitResend /\ [][NextResend]_vars

\* --- the dialogue with faults: a step handler that throws, a linkIdMax that
\* answers false
InitFaults ==
  /\ focus = "AuthModuleFaults"
  /\ SvcInit
  /\ AuthStoreInit
  /\ DialogueInit
  /\ CourierInit
  /\ InitChatInit

NextFaults ==
  \/ Next
  \/ \E chatId \in Chats, inputText \in Texts : HandleMessageThrows(chatId, inputText)
  \/ \E chatId \in Chats : PhoneConfirmationThrows(chatId)
  \/ \E r \in BagToSet(runs) : AfterLinkIdMaxFailed(r)

SpecFaults == InitFaults /\ [][NextFaults]_vars

\* ========================================================= the delivery bot
\* One user is followed through the handler chain of bot.module:
\* DialogBlockerMiddleware first, then the cancel command of the general
\* handlers, the stock handlers and the courier handlers.  The authorisation
\* middleware between them passes the updates of an authorised user on.
BotUsers == {1}
\* under "SessionGate" the same chain meets the sessions any caller of
\* SessionService may have created, in a state of the table or not
\* under "DeliveryBotOrders" the user has two problem orders; under
\* "DeliveryBotRedelivered" a second handler run may start while one is
\* suspended, as when an update is delivered again
InBot == focus \in {"DeliveryBot", "SessionGate", "DeliveryBotOrders", "DeliveryBotRedelivered"}
BotRunLimit == IF focus = "DeliveryBotRedelivered" THEN 2 ELSE 1
BotCanStart == BagCardinality(runs) < BotRunLimit

\* a callback payload 'name' or 'name:arg'
Payload(name, arg) == [name |-> name, arg |-> arg]
Payloads ==
  {Payload("problemOrderReply", o) : o \in Orders}
    \cup {Payload(n, Undefined) : n \in {"photo_yes", "photo_no", "cancel", "change-supply", "my-orders"}}

\* a message: its text ([cmd, len]: the first word when the text starts with
\* '/', and the length) and the number of its image attachments
Message(cmd, len, images) == [cmd |-> cmd, len |-> len, images |-> images]
\* the races are followed with fewer kinds of message: one photo per message
\* under "DeliveryBotOrders", two under "DeliveryBotRedelivered"
TextLengths == IF focus \in {"DeliveryBotOrders", "DeliveryBotRedelivered"} THEN {400} ELSE {0, 400, 401}
PhotoCounts ==
  CASE focus = "DeliveryBotOrders" -> {0, 1}
    [] focus = "DeliveryBotRedelivered" -> {0, 2}
    [] OTHER -> 0..4
Messages ==
  {Message("/cancel", 7, 0), Message("/start", 6, 0)}
    \cup {Message("", len, 0) : len \in TextLengths}
    \cup {Message("", 0, n) : n \in PhotoCounts \ {0}}
    \cup {Message("", 400, 1)}

\* isCommandAllowed that allows nothing
isCommandAllowed_none(session, command) == FALSE

\* --- SessionService.isCommandAllowed / isCallbackAllowed: includes() is an
\* exact match, a payload with an argument equals no plain name
isCommandAllowed(session, command) == command \in session.allowedCommands
isCallbackAllowed(session, payload) ==
  payload.arg = Undefined /\ payload.name \in session.allowedCallbacks

\* the reply of the gate, which quotes the step description of the session
FinishStepReply(stepDescription) ==
  CASE stepDescription = "STEP_COURIER_COMMENT" -> "FINISH_STEP_COURIER_COMMENT"
    [] stepDescription = "STEP_COURIER_PHOTO" -> "FINISH_STEP_COURIER_PHOTO"
    [] stepDescription = "STEP_ITEM_NAME" -> "FINISH_STEP_ITEM_NAME"
    [] OTHER -> "FINISH_STEP_DEFAULT"

\* --- DialogBlockerMiddleware.use: does it stop the update?
DialogBlocker_blocksCallback(st, userId, payload) ==
  LET got == SessionService_get(st, userId)
  IN got # << >> /\ ~isCallbackAllowed(got[1], payload)

DialogBlocker_blocksMessage(st, userId, message) ==
  LET got == SessionService_get(st, userId)
  IN got # << >> /\ message.cmd # "" /\ ~isCommandAllowed(got[1], message.cmd)

\* a handler run of the delivery bot suspended at an await
BotRun(pc, chat, order, urls, i) == [pc |-> pc, chat |-> chat, order |-> order, urls |-> urls, i |-> i]

\* a courier session: one that has an order
IsCourierSession(session) == session.orderId # Undefined

\* --- a message_callback update through the chain
BotCallback(userId, payload) ==
  /\ InBot
  /\ UNCHANGED <<focus, authVars, staffMax, stats, initVars, botVars>>
  /\ LET got == SessionService_get(SvcState, userId) IN
     IF DialogBlocker_blocksCallback(SvcState, userId, payload)
     THEN /\ last' = Did("callback", "DialogBlocker", userId, FinishStepReply(got[1].stepDescription))
          /\ UNCHANGED <<svcVars, runs>>
     ELSE CASE payload.name = "change-supply" ->
                 \* SupplyMenuService.showChangeStock awaits its reply first
                 /\ BotCanStart
                 /\ Suspend(BotRun("changeSupply", userId, Undefined, << >>, 0))
                 /\ last' = Did("callback", "change-supply", userId, "ASK_ITEM_NAME")
                 /\ UNCHANGED svcVars
            [] payload.name = "problemOrderReply" ->
                 /\ FreeHandles(SessionService_delete(SvcState, userId).timers, userId) # {}
                 /\ SvcSet(SessionService_create(SvcState, userId,
                             [state |-> "waiting_courier_reply", orderId |-> payload.arg]),
                           "create", userId)
                 /\ last' = Did("callback", "problemOrderReply", userId, "WRITE_REPLY")
                 /\ UNCHANGED runs
            [] payload.name = "photo_no" ->
                 \* CourierDialogService.finishDialogNoPhoto
                 IF got # << >> /\ IsCourierSession(got[1]) /\ got[1].state = "waiting_courier_reply"
                 THEN /\ SvcSet(SessionService_delete(SvcState, userId), "delete", userId)
                      /\ last' = Did("callback", "photo_no", userId, "NO_PHOTO_THANKS")
                      /\ UNCHANGED runs
                 ELSE /\ last' = Did("callback", "photo_no", userId, "")
                      /\ UNCHANGED <<svcVars, runs>>
            [] payload.name = "photo_yes" ->
                 \* CourierDialogService.photo_yes
                 IF got # << >> /\ IsCourierSession(got[1]) /\ got[1].state = "waiting_courier_reply"
                 THEN /\ FreeHandles(SessionService_clearTimer(SvcState, userId).timers, userId) # {}
                      /\ SvcSet(SessionService_update(SvcState, userId,
                                  [state |-> "awaiting_photo_from_courier"]),
                                "update", userId)
                      /\ last' = Did("callback", "photo_yes", userId, "SEND_PHOTO")
                      /\ UNCHANGED runs
                 ELSE /\ last' = Did("callback", "photo_yes", userId, "")
                      /\ UNCHANGED <<svcVars, runs>>
            [] OTHER ->
                 /\ last' = [Did("callback", "other", userId, "") EXCEPT !.next = TRUE]
                 /\ UNCHANGED <<svcVars, runs>>

\* --- SupplyMenuService.showChangeStock after its awaited reply
AfterChangeSupplyReply(r) ==
  /\ InBot
  /\ r \in BagToSet(runs) /\ r.pc = "changeSupply"
  /\ FreeHandles(SessionService_delete(SvcState, r.chat).timers, r.chat) # {}
  /\ SvcSet(SessionService_create(SvcState, r.chat, [state |-> "awaiting_itemName"]), "create", r.chat)
  /\ Finish(r)
  /\ last' = Did("resume", "change-supply", r.chat, "")
  /\ UNCHANGED <<focus, authVars, staffMax, stats, initVars, botVars>>

\* courierReply that stores a text of any length
BotMessage_anyLength(userId, message, saved) ==
  /\ InBot
  /\ UNCHANGED <<focus, authVars, staffMax, stats, initVars, problemOrderPhotos, svcVars, runs>>
  /\ userId \in DOMAIN svcSessions
  /\ IsCourierSession(svcSessions[userId])
  /\ svcSessions[userId].state = "waiting_courier_reply"
  /\ message.cmd = ""
  /\ problemOrders' = [problemOrders EXCEPT ![svcSessions[userId].orderId] = message.len]
  /\ last' = Did("text", "courierReply", userId, "REPLY_ACCEPTED")

\* --- a message_created update through the chain; saved: did the
\* problemOrders.update of courierReply succeed
BotMessage(userId, message, saved) ==
  /\ InBot
  /\ UNCHANGED <<focus, authVars, staffMax, stats, initVars, problemOrderPhotos>>
  /\ LET got == SessionService_get(SvcState, userId) IN
     IF DialogBlocker_blocksMessage(SvcState, userId, message)
     THEN /\ last' = Did("text", "DialogBlocker", userId, FinishStepReply(got[1].stepDescription))
          /\ UNCHANGED <<svcVars, runs, problemOrders>>
     ELSE IF message.cmd = "/cancel"
     THEN \* bot.command('cancel') of the general handlers
          IF got # << >>
          THEN /\ SvcSet(SessionService_delete(SvcState, userId), "delete", userId)
               /\ last' = Did("command", "cancel", userId, "CANCELLED")
               /\ UNCHANGED <<runs, problemOrders>>
          ELSE /\ last' = Did("command", "cancel", userId, "")
               /\ UNCHANGED <<svcVars, runs, problemOrders>>
     ELSE IF message.cmd # ""
     THEN /\ last' = [Did("command", "other", userId, "") EXCEPT !.next = TRUE]
          /\ UNCHANGED <<svcVars, runs, problemOrders>>
     ELSE IF got # << >> /\ got[1].state = "awaiting_itemName"
     THEN \* the stock handler answers with the stock of the named item
          /\ last' = Did("text", "stock", userId, "STOCK_SHOWN")
          /\ UNCHANGED <<svcVars, runs, problemOrders>>
     ELSE IF got = << >> \/ ~IsCourierSession(got[1])
     THEN /\ last' = [Did("text", "courier", userId, "") EXCEPT !.next = TRUE]
          /\ UNCHANGED <<svcVars, runs, problemOrders>>
     ELSE IF got[1].state = "waiting_courier_reply"
     THEN \* CourierDialogService.courierReply
          IF message.len = 0 \/ message.len > 400
          THEN /\ last' = Did("text", "courierReply", userId, "REPLY_REJECTED")
               /\ UNCHANGED <<svcVars, runs, problemOrders>>
          ELSE IF saved
          THEN /\ problemOrders' = [problemOrders EXCEPT ![got[1].orderId] = message.len]
               /\ last' = Did("text", "courierReply", userId, "REPLY_ACCEPTED")
               /\ UNCHANGED <<svcVars, runs>>
          ELSE /\ last' = Did("text", "courierReply", userId, "REPLY_SAVE_ERROR")
               /\ UNCHANGED <<svcVars, runs, problemOrders>>
     ELSE IF got[1].state = "awaiting_photo_from_courier"
     THEN \* CourierDialogService.finishDialogWithPhoto up to uploadPhotos
          IF message.images = 0
          THEN /\ last' = Did("text", "finishDialogWithPhoto", userId, "PHOTO_NOT_FOUND")
               /\ UNCHANGED <<svcVars, runs, problemOrders>>
          ELSE LET limit == IF message.images < 3 THEN message.images ELSE 3
                   limitedPhotos == [pos \in 1..limit |-> pos]
               IN /\ BotCanStart
                  /\ Suspend(BotRun("uploadPhotos", userId, got[1].orderId, limitedPhotos, 0))
                  /\ last' = Did("text", "finishDialogWithPhoto", userId, "")
                  /\ UNCHANGED <<svcVars, problemOrders>>
     ELSE /\ last' = [Did("text", "courier", userId, "") EXCEPT !.next = TRUE]
          /\ UNCHANGED <<svcVars, runs, problemOrders>>

\* --- finishDialogWithPhoto after uploadPhotos: a photo, and the url it is
\* stored under, is named by its position in the message; oks are the
\* positions of the photos that were uploaded; then savePhotoUrlsToDB calls deleteMany
AfterUploadPhotos(r, oks) ==
  /\ InBot
  /\ r \in BagToSet(runs) /\ r.pc = "uploadPhotos"
  /\ oks \subseteq 1..Len(r.urls)
  /\ LET uploadedUrls == SelectSeq(r.urls, LAMBDA u : u \in oks) IN
     IF Len(uploadedUrls) = 0
     THEN /\ Finish(r)
          /\ last' = Did("resume", "finishDialogWithPhoto", r.chat, "PHOTO_UPLOAD_FAILED")
     ELSE /\ Resume(r, [r EXCEPT !.pc = "deleteMany", !.urls = uploadedUrls])
          /\ last' = Did("resume", "finishDialogWithPhoto", r.chat, "")
  /\ UNCHANGED <<focus, svcVars, authVars, staffMax, stats, initVars, botVars>>

\* the end of finishDialogWithPhoto: the session is deleted, then the reply
FinishDialogWithPhoto_end(r) ==
  /\ SvcSet(SessionService_delete(SvcState, r.chat), "delete", r.chat)
  /\ Finish(r)
  /\ last' = Did("resume", "finishDialogWithPhoto", r.chat, "PHOTO_THANKS")

\* a catch of finishDialogWithPhoto that ends the dialogue as well
FinishDialogWithPhoto_catch_deletes(r) ==
  /\ SvcSet(SessionService_delete(SvcState, r.chat), "delete", r.chat)
  /\ Finish(r)
  /\ last' = Did("resume", "finishDialogWithPhoto", r.chat, "PHOTO_FATAL_ERROR")

\* the catch of finishDialogWithPhoto
FinishDialogWithPhoto_catch(r) ==
  /\ Finish(r)
  /\ last' = Did("resume", "finishDialogWithPhoto", r.chat, "PHOTO_FATAL_ERROR")
  /\ UNCHANGED svcVars

\* savePhotoUrlsToDB without the deleteMany
AfterDeleteMany_keepsRows(r, ok) ==
  /\ InBot
  /\ r \in BagToSet(runs) /\ r.pc = "deleteMany"
  /\ Resume(r, [r EXCEPT !.pc = "create", !.i = 1])
  /\ last' = Did("resume", "finishDialogWithPhoto", r.chat, "")
  /\ UNCHANGED <<focus, svcVars, authVars, staffMax, stats, initVars, botVars>>

\* --- savePhotoUrlsToDB after deleteMany; ok: the call succeeded
AfterDeleteMany(r, ok) ==
  /\ InBot
  /\ r \in BagToSet(runs) /\ r.pc = "deleteMany"
  /\ IF ok
     THEN /\ problemOrderPhotos' = SelectSeq(problemOrderPhotos, LAMBDA row : row.orderId # r.order)
          /\ Resume(r, [r EXCEPT !.pc = "create", !.i = 1])
          /\ last' = Did("resume", "finishDialogWithPhoto", r.chat, "")
          /\ UNCHANGED svcVars
     ELSE /\ FinishDialogWithPhoto_catch(r)
          /\ UNCHANGED problemOrderPhotos
  /\ UNCHANGED <<focus, authVars, staffMax, stats, initVars, problemOrders>>

\* --- savePhotoUrlsToDB after the create of the photo at position r.i
AfterCreate(r, ok) ==
  /\ InBot
  /\ r \in BagToSet(runs) /\ r.pc = "create"
  /\ IF ok
     THEN /\ problemOrderPhotos' =
               Append(problemOrderPhotos, [orderId |-> r.order, url |-> r.urls[r.i], index |-> r.i])
          /\ IF r.i < Len(r.urls)
             THEN /\ Resume(r, [r EXCEPT !.i = r.i + 1])
                  /\ last' = Did("resume", "finishDialogWithPhoto", r.chat, "")
                  /\ UNCHANGED svcVars
             ELSE FinishDialogWithPhoto_end(r)
     ELSE /\ FinishDialogWithPhoto_catch(r)
          /\ UNCHANGED problemOrderPhotos
  /\ UNCHANGED <<focus, authVars, staffMax, stats, initVars, problemOrders>>

InitBot ==
  /\ focus = "DeliveryBot"
  /\ SvcInit
  /\ AuthStoreInit
  /\ DialogueInit
  /\ CourierInit
  /\ InitChatInit

NextBot ==
  \/ \E userId \in BotUsers, payload \in Payloads : BotCallback(userId, payload)
  \/ \E userId \in BotUsers, message \in Messages, saved \in BOOLEAN : BotMessage(userId, message, saved)
  \/ \E r \in BagToSet(runs) : AfterChangeSupplyReply(r)
  \/ \E r \in BagToSet(runs) : \E oks \in SUBSET (1..3) : AfterUploadPhotos(r, oks)
  \/ \E r \in BagToSet(runs), ok \in BOOLEAN : AfterDeleteMany(r, ok)
  \/ \E r \in BagToSet(runs), ok \in BOOLEAN : AfterCreate(r, ok)
  \/ \E userId \in BotUsers : \E t \in Handles(userId) : SvcTimerFire(t)
  \/ SvcTick

SpecBot == InitBot /\ [][NextBot]_vars

InitBotOrders ==
  /\ focus = "DeliveryBotOrders"
  /\ SvcInit
  /\ AuthStoreInit
  /\ DialogueInit
  /\ CourierInit
  /\ InitChatInit

SpecBotOrders == InitBotOrders /\ [][NextBot]_vars

InitBotRedelivered ==
  /\ focus = "DeliveryBotRedelivered"
  /\ SvcInit
  /\ AuthStoreInit
  /\ DialogueInit
  /\ CourierInit
  /\ InitChatInit

SpecBotRedelivered == InitBotRedelivered /\ [][NextBot]_vars

InitGate ==
  /\ focus = "SessionGate"
  /\ SvcInit
  /\ AuthStoreInit
  /\ DialogueInit
  /\ CourierInit
  /\ InitChatInit

\* the states of the table are entered by the handlers of the bot; a caller
\* that names no state adds the state 'initial', which the table does not list
NextGate ==
  \/ NextBot
  \/ \E key \in BotUsers : SvcCreate(key, EmptyMap)
  \/ \E key \in BotUsers : SvcUpdate(key, EmptyMap)

SpecGate == InitGate /\ [][NextGate]_vars


\* ================================================== the init-chat session store
\* SessionManagerService of bots/supply/init-chat, called by the handlers of
\* InitChat.  timeoutId is NoHandle while it is undefined.
NoHandle == <<0, 0>>
Units == {1, 2}
InitChatState == [sessions |-> initSessions, timers |-> initTimers]
\* "InitChat": the session store under /init_chat, unit buttons and the end of
\* the dialogue.  "InitChatFlow": the whole dialogue, bot_added events included.
InInitChat == focus \in {"InitChat", "InitChatFlow"}

InitChat_setupTimeout(st, userId) ==
  IF userId \notin DOMAIN st.sessions THEN st
  ELSE LET session == st.sessions[userId]
           cleared == IF session.timeoutId # NoHandle
                      THEN ClearTimeout(st.timers, session.timeoutId)
                      ELSE st.timers
           timeoutId == FreshTimer(cleared, userId)
       IN [sessions |-> MapPut(st.sessions, userId, [session EXCEPT !.timeoutId = timeoutId]),
           timers |-> SetTimeout(cleared, timeoutId, userId, SESSION_TIMEOUT)]

InitChat_create(st, userId) ==
  InitChat_setupTimeout(
    [sessions |-> MapPut(st.sessions, userId,
                         [step |-> "awaiting_unit", unitId |-> Undefined,
                          unitName |-> Undefined, timeoutId |-> NoHandle]),
     timers |-> st.timers],
    userId)

InitChat_delete(st, userId) ==
  [sessions |-> MapRemove(st.sessions, userId),
   timers |-> IF userId \in DOMAIN st.sessions /\ st.sessions[userId].timeoutId # NoHandle
              THEN ClearTimeout(st.timers, st.sessions[userId].timeoutId)
              ELSE st.timers]

InitChat_update(st, userId, data) ==
  IF userId \notin DOMAIN st.sessions THEN st
  ELSE InitChat_setupTimeout(
         [sessions |-> MapPut(st.sessions, userId, Spread(st.sessions[userId], data)),
          timers |-> st.timers],
         userId)

InitChatSet(st) ==
  /\ initSessions' = st.sessions
  /\ initTimers' = st.timers

\* --- InitChat.handleInitStart up to its first await: /init_chat or the
\* retryInitChat button
InitChatStart(userId) ==
  /\ InInitChat
  /\ FreeHandles(initTimers, userId) # {}
  /\ InitChatSet(InitChat_create(InitChatState, userId))
  /\ last' = [Did("command", "init_chat", userId, "") EXCEPT !.upd = userId \in DOMAIN initSessions]
  /\ UNCHANGED <<focus, svcVars, authVars, runs, staffMax, stats, botVars, seenEvents>>

\* --- InitChat.handleUnitSelection: the button unitChatInit:<unitId>:<unitName>.
\* The reply carries the unit of the payload in text.
InitChatUnitSelection(userId, unit) ==
  /\ InInitChat
  /\ IF userId \in DOMAIN initSessions /\ initSessions[userId].step = "awaiting_chat"
     THEN /\ last' = Did("callback", "unitChatInit", userId, "ALREADY_STARTED")
          /\ UNCHANGED <<initSessions, initTimers>>
     ELSE /\ FreeHandles(InitChat_delete(InitChatState, userId).timers, userId) # {}
          /\ InitChatSet(InitChat_update(InitChatState, userId,
                           [unitName |-> unit, unitId |-> unit, step |-> "awaiting_chat"]))
          /\ last' = [Did("callback", "unitChatInit", userId, "CREATE_CHAT")
                        EXCEPT !.upd = userId \in DOMAIN initSessions, !.text = unit]
  /\ UNCHANGED <<focus, svcVars, authVars, runs, staffMax, stats, botVars, seenEvents>>

\* --- InitChat.handleConfirmation: the button confirmInitChat:<groupChatId>
InitChatEnd(userId) ==
  /\ InInitChat
  /\ userId \in DOMAIN initSessions
  /\ initSessions[userId].unitId # Undefined
  /\ InitChatSet(InitChat_delete(InitChatState, userId))
  /\ last' = Did("callback", "confirmInitChat", userId, "DONE")
  /\ UNCHANGED <<focus, svcVars, authVars, runs, staffMax, stats, botVars, seenEvents>>

\* the callback of setTimeout in setupTimeout: this.sessions.delete(userId)
InitChatTimerFire(t) ==
  /\ InInitChat
  /\ t \in DOMAIN initTimers
  /\ initTimers[t].left = 0
  /\ initSessions' = MapRemove(initSessions, initTimers[t].key)
  /\ initTimers' = MapRemove(initTimers, t)
  /\ last' = [Did("timer", "timeout", initTimers[t].key, "")
                EXCEPT !.upd = initTimers[t].key \in DOMAIN initSessions]
  /\ UNCHANGED <<focus, svcVars, authVars, runs, staffMax, stats, botVars, seenEvents>>

\* --- EventDeduplicatorService: a seen-set with time-based eviction.  An entry
\* stays for DedupWindow ticks; passed counts the deliveries of the key that
\* isDuplicate answered false to since the entry was made.
DedupWindow == 1
isDuplicate(seen, key) == key \in DOMAIN seen
Remember(seen, key) == MapPut(seen, key, [left |-> DedupWindow, passed |-> 1])
Evict(seen) ==
  LET kept == {k \in DOMAIN seen : seen[k].left > 1}
  IN [k \in kept |-> [seen[k] EXCEPT !.left = @ - 1]]

InitChatTick ==
  /\ InInitChat
  /\ initTimers # EmptyMap \/ seenEvents # EmptyMap
  /\ \A t \in DOMAIN initTimers : initTimers[t].left > 0
  /\ initTimers' = [t \in DOMAIN initTimers |-> [initTimers[t] EXCEPT !.left = @ - 1]]
  /\ seenEvents' = Evict(seenEvents)
  /\ last' = Did("tick", "tick", 0, "")
  /\ UNCHANGED <<focus, svcVars, authVars, runs, staffMax, stats, botVars, initSessions>>

\* --- InitChat.handleBotAdded (text of last: the key of the event).  A bot_added event carries the group chat and
\* the user who added the bot; getKey derives the key from the event, or gives
\* none.
GroupChats == {1}
BotAdded(key, chatId, userId) == [key |-> key, chatId |-> chatId, userId |-> userId]
BotAddedEvents ==
  {e \in [key : {Undefined} \cup BotUsers, chatId : GroupChats, userId : BotUsers] :
     e.key \in {Undefined, e.userId}}
InitRun(pc, userId, groupChatId, unitName) ==
  [pc |-> pc, userId |-> userId, groupChatId |-> groupChatId, unitName |-> unitName]
InitRunLimit == MaxRuns + 1

\* the gate of handleBotAdded that lets every delivery through
handleBotAdded_noDedup(seen, key) == FALSE

handleBotAdded_gate(seen, key) == key = Undefined \/ isDuplicate(seen, key)

\* up to the await of prisma.inventorySettingsUnit.findFirst
InitChatBotAdded(e) ==
  /\ focus = "InitChatFlow"
  /\ BagCardinality(runs) < InitRunLimit
  /\ IF handleBotAdded_gate(seenEvents, e.key)
     THEN /\ last' = [Did("bot_added", "bot_added", e.userId, "")
                        EXCEPT !.next = TRUE, !.text = e.key]
          /\ UNCHANGED <<runs, seenEvents>>
     ELSE /\ seenEvents' =
               IF isDuplicate(seenEvents, e.key)
               THEN [seenEvents EXCEPT ![e.key].passed = @ + 1]
               ELSE Remember(seenEvents, e.key)
          /\ IF e.userId \notin DOMAIN initSessions \/ initSessions[e.userId].step # "awaiting_chat"
             THEN /\ last' = [Did("bot_added", "bot_added", e.userId, "")
                                EXCEPT !.next = TRUE, !.text = e.key]
                  /\ UNCHANGED runs
             ELSE /\ Suspend(InitRun("findFirst", e.userId, e.chatId, initSessions[e.userId].unitName))
                  /\ last' = [Did("bot_added", "bot_added", e.userId, "") EXCEPT !.text = e.key]
  /\ UNCHANGED <<focus, svcVars, authVars, staffMax, stats, botVars, initSessions, initTimers>>

\* findFirst answers: the chat is occupied (reply, delete) or it is free and the
\* two messages are sent (ok) or sending throws
InitChatAfterFindFirst(r, occupant, ok) ==
  /\ focus = "InitChatFlow"
  /\ BagIn(r, runs)
  /\ r.pc = "findFirst"
  /\ Finish(r)
  /\ IF occupant
     THEN /\ InitChatSet(InitChat_delete(InitChatState, r.userId))
          /\ last' = Did("bot_added", "findFirst", r.userId, "CHAT_OCCUPIED")
     ELSE /\ UNCHANGED <<initSessions, initTimers>>
          /\ last' = [Did("bot_added", "findFirst", r.userId,
                          IF ok THEN "CHECK_SENT" ELSE "BOT_ADDED_FAILED")
                        EXCEPT !.text = r.unitName]
  /\ UNCHANGED <<focus, svcVars, authVars, staffMax, stats, botVars, seenEvents>>

InitInitChat ==
  /\ focus = "InitChat"
  /\ SvcInit
  /\ AuthStoreInit
  /\ DialogueInit
  /\ CourierInit
  /\ InitChatInit

NextInitChat ==
  \/ \E userId \in Keys : InitChatStart(userId)
  \/ \E userId \in Keys : \E unit \in Units : InitChatUnitSelection(userId, unit)
  \/ \E userId \in Keys : InitChatEnd(userId)
  \/ \E userId \in Keys : \E t \in Handles(userId) : InitChatTimerFire(t)
  \/ InitChatTick

SpecInitChat == InitInitChat /\ [][NextInitChat]_vars

InitInitChatFlow ==
  /\ focus = "InitChatFlow"
  /\ SvcInit
  /\ AuthStoreInit
  /\ DialogueInit
  /\ CourierInit
  /\ InitChatInit

NextInitChatFlow ==
  \/ \E userId \in BotUsers : InitChatStart(userId)
  \/ \E userId \in BotUsers : \E unit \in Units : InitChatUnitSelection(userId, unit)
  \/ \E userId \in BotUsers : InitChatEnd(userId)
  \/ \E userId \in BotUsers : \E t \in Handles(userId) : InitChatTimerFire(t)
  \/ InitChatTick
  \/ \E e \in BotAddedEvents : InitChatBotAdded(e)
  \/ \E r \in BagToSet(runs) : \E occupant, ok \in BOOLEAN : InitChatAfterFindFirst(r, occupant, ok)

SpecInitChatFlow == InitInitChatFlow /\ [][NextInitChatFlow]_vars


\* ===================================== the single-class AuthService (src/auth)
\* AuthService of src/auth/auth.service.ts keeps the timer handle in the session
\* itself (timeoutId) and uses a SessionManagerService whose create, update and
\* delete only touch the map.  a = [sessions, timers, active]; active is unused.
EnvSessionTimeout == 2
InAuthService == focus = "AuthService"

SessionManager_create(a, chatId) ==
  [a EXCEPT !.sessions = MapPut(a.sessions, chatId, [NewAuthSession EXCEPT !.timeoutId = NoHandle])]

SessionManager_delete(a, chatId) ==
  [a EXCEPT !.sessions = MapRemove(a.sessions, chatId)]

SessionManager_update(a, chatId, partial) ==
  IF chatId \notin DOMAIN a.sessions THEN a
  ELSE [a EXCEPT !.sessions = MapPut(a.sessions, chatId, Spread(a.sessions[chatId], partial))]

AuthService_setupTimeout(a, chatId) ==
  LET c == IF chatId \in DOMAIN a.sessions /\ a.sessions[chatId].timeoutId # NoHandle
           THEN [a EXCEPT !.timers = ClearTimeout(a.timers, a.sessions[chatId].timeoutId)]
           ELSE a
      timeoutId == FreshTimer(c.timers, chatId)
  IN SessionManager_update(
       [c EXCEPT !.timers = SetTimeout(c.timers, timeoutId, chatId, EnvSessionTimeout)],
       chatId, [timeoutId |-> timeoutId])

\* the handles setupTimeout may take once it has cleared the session's timer
AuthService_freeHandles(a, chatId) ==
  FreeHandles(IF chatId \in DOMAIN a.sessions /\ a.sessions[chatId].timeoutId # NoHandle
              THEN ClearTimeout(a.timers, a.sessions[chatId].timeoutId)
              ELSE a.timers, chatId)

\* --- handleAuthStart up to its await of safeReply
AuthServiceStart(chatId) ==
  /\ InAuthService
  /\ CanStart
  /\ AuthSet(SessionManager_create(AuthState, chatId))
  /\ Suspend(Run("startReply", chatId, Undefined, Undefined, Undefined, Undefined))
  /\ last' = [Did("callback", "auth_start", chatId, "ENTER_PHONE") EXCEPT !.upd = Has(chatId)]
  /\ UNCHANGED <<focus, botVars, initVars, svcVars, authOp, staffMax, stats>>

\* --- handleAuthStart after the reply: setupTimeout(chatId)
AuthServiceAfterStartReply(r) ==
  /\ InAuthService
  /\ BagIn(r, runs)
  /\ r.pc = "startReply"
  /\ AuthService_freeHandles(AuthState, r.chat) # {}
  /\ AuthSet(AuthService_setupTimeout(AuthState, r.chat))
  /\ Finish(r)
  /\ last' = Did("callback", "startReply", r.chat, "")
  /\ UNCHANGED <<focus, botVars, initVars, svcVars, authOp, staffMax, stats>>

\* --- handleMessage with a session and a text.  path says what the step
\* handler does: "retry" updates the session and calls setupTimeout at once (a
\* wrong code), "advance" does so after an await (a phone or a name that is
\* accepted), "end" replies and then deletes the session (success, no staff, an
\* SMS failure, an error).
AuthServiceMessage(chatId, path) ==
  /\ InAuthService
  /\ CanStart
  /\ Has(chatId)
  /\ IF path = "retry"
     THEN /\ sessions[chatId].step = "awaiting_code"
          /\ AuthService_freeHandles(AuthState, chatId) # {}
          /\ AuthSet(AuthService_setupTimeout(
                       SessionManager_update(AuthState, chatId, [attemptsCount |-> 1]), chatId))
          /\ UNCHANGED runs
          /\ last' = [Did("text", "message", chatId, "WRONG_CODE") EXCEPT !.upd = TRUE]
     ELSE /\ path = "advance" => sessions[chatId].step = "awaiting_phone"
          /\ Suspend(Run(path, chatId, Undefined, Undefined, Undefined, Undefined))
          /\ UNCHANGED <<sessions, timers, activeTimeouts>>
          /\ last' = Did("text", "message", chatId, "")
  /\ UNCHANGED <<focus, botVars, initVars, svcVars, authOp, staffMax, stats>>

AuthServiceAfterAwait(r) ==
  /\ InAuthService
  /\ BagIn(r, runs)
  /\ r.pc \in {"advance", "end"}
  /\ IF r.pc = "advance"
     THEN /\ AuthService_freeHandles(AuthState, r.chat) # {}
          /\ AuthSet(AuthService_setupTimeout(
                       SessionManager_update(AuthState, r.chat, [step |-> "awaiting_code"]), r.chat))
          /\ last' = [Did("text", "advance", r.chat, "ENTER_CODE") EXCEPT !.upd = Has(r.chat)]
     ELSE /\ AuthSet(SessionManager_delete(AuthState, r.chat))
          /\ last' = [Did("text", "end", r.chat, "END") EXCEPT !.upd = Has(r.chat)]
  /\ Finish(r)
  /\ UNCHANGED <<focus, botVars, initVars, svcVars, authOp, staffMax, stats>>

\* the callback of setTimeout in setupTimeout
AuthServiceTimerFire(t) ==
  /\ InAuthService
  /\ t \in DOMAIN timers
  /\ timers[t].left = 0
  /\ AuthSet(LET a == [AuthState EXCEPT !.timers = MapRemove(timers, t)]
             IN IF timers[t].key \in DOMAIN sessions
                THEN SessionManager_delete(a, timers[t].key)
                ELSE a)
  /\ last' = [Did("timer", "timeout", timers[t].key, "") EXCEPT !.upd = Has(timers[t].key)]
  /\ UNCHANGED <<focus, botVars, initVars, svcVars, authOp, runs, staffMax, stats>>

AuthServiceTick ==
  /\ InAuthService
  /\ timers # EmptyMap
  /\ \A t \in DOMAIN timers : timers[t].left > 0
  /\ timers' = [t \in DOMAIN timers |-> [timers[t] EXCEPT !.left = @ - 1]]
  /\ last' = Did("tick", "tick", 0, "")
  /\ UNCHANGED <<focus, botVars, initVars, svcVars, sessions, activeTimeouts, authOp, runs, staffMax, stats>>

InitAuthService ==
  /\ focus = "AuthService"
  /\ SvcInit
  /\ AuthStoreInit
  /\ DialogueInit
  /\ CourierInit
  /\ InitChatInit

NextAuthService ==
  \/ \E chatId \in Chats : AuthServiceStart(chatId)
  \/ \E r \in BagToSet(runs) : AuthServiceAfterStartReply(r)
  \/ \E chatId \in Chats : \E path \in {"retry", "advance", "end"} : AuthServiceMessage(chatId, path)
  \/ \E r \in BagToSet(runs) : AuthServiceAfterAwait(r)
  \/ \E chatId \in Chats : \E t \in Handles(chatId) : AuthServiceTimerFire(t)
  \/ AuthServiceTick

SpecAuthService == InitAuthService /\ [][NextAuthService]_vars


\* ============================================ the two stores on their own
StoresInit ==
  /\ focus \in {"SessionService", "SessionManagerService"}
  /\ SvcInit
  /\ AuthStoreInit
  /\ DialogueInit
  /\ CourierInit
  /\ InitChatInit

StoresNext == SvcNext \/ StoreNext

SpecStores == StoresInit /\ [][StoresNext]_vars

\* ==================================================================== claims
TimersOf(T, key) == {t \in DOMAIN T : T[t].key = key}

\* C1: in SessionService every key has a pending expiry timer exactly when it
\* has a session record, that timer is the one the record holds, and it is the
\* only pending timer of the key -- so after a second create(k) no timer of the
\* replaced session is left to fire and delete the new session.
C1_TimerIffSession ==
  \A k \in Keys :
    /\ Cardinality(TimersOf(svcTimers, k)) = (IF k \in DOMAIN svcSessions THEN 1 ELSE 0)
    /\ k \in DOMAIN svcSessions => TimersOf(svcTimers, k) = {svcSessions[k].timer}

\* a second create(k) has replaced a session that was running for a while
C1_Witness ==
  /\ svcOp = [op |-> "create", key |-> 1, had |-> TRUE]
  /\ 2 \in DOMAIN svcSessions
  /\ svcTimers[svcSessions[2].timer].left < DIALOG_TIMEOUT
  /\ svcTimers[svcSessions[1].timer].left = DIALOG_TIMEOUT

\* C3: in the auth timer registry every chatId has at most one pending timer,
\* and it has one exactly when activeTimeouts holds its handle; a firing timer
\* leaves neither a pending timer nor a registry entry nor a session for its
\* chatId; clearTimeout for a chatId without a timer changes nothing.
C3_RegistryState ==
  \A c \in Keys :
    /\ Cardinality(TimersOf(timers, c)) <= 1
    /\ TimersOf(timers, c) = (IF c \in DOMAIN activeTimeouts THEN {activeTimeouts[c]} ELSE {})

C3_RegistryStep ==
  /\ authOp'.op = "setupTimeout" =>
       /\ TimersOf(timers', authOp'.key) = {activeTimeouts'[authOp'.key]}
       /\ timers'[activeTimeouts'[authOp'.key]].left = sessionTimeout
  /\ authOp'.op = "fire" =>
       /\ TimersOf(timers', authOp'.key) = {}
       /\ authOp'.key \notin DOMAIN activeTimeouts'
       /\ authOp'.key \notin DOMAIN sessions'
       /\ Cardinality(DOMAIN timers') = Cardinality(DOMAIN timers) - 1
  /\ (authOp'.op = "clearTimeout" /\ authOp'.key \notin DOMAIN activeTimeouts) =>
       UNCHANGED <<sessions, activeTimeouts, timers>>

C3_OneTimerPerChat == []C3_RegistryState /\ [][C3_RegistryStep]_vars

\* setupTimeout has replaced a timer that had been running, for a chat with a session,
\* while the other chat's timer is still pending
C3_Witness ==
  /\ authOp = [op |-> "setupTimeout", key |-> 1, had |-> TRUE]
  /\ 2 \in DOMAIN activeTimeouts
  /\ timers[activeTimeouts[2]].left < sessionTimeout
  /\ timers[activeTimeouts[1]].left = sessionTimeout

\* C5: in both stores an update for a key that has no session changes nothing:
\* no record appears, no timer is scheduled, and get still finds nothing.
C5_UpdateAbsentStep ==
  /\ (authOp'.op = "update" /\ authOp'.key \notin DOMAIN sessions) =>
       /\ UNCHANGED <<sessions, activeTimeouts, timers>>
       /\ SessionManagerService_get([sessions |-> sessions', timers |-> timers',
                                     active |-> activeTimeouts'], authOp'.key) = << >>
  /\ (svcOp'.op = "update" /\ svcOp'.key \notin DOMAIN svcSessions) =>
       /\ UNCHANGED <<svcSessions, svcTimers>>
       /\ SessionService_get([sessions |-> svcSessions', timers |-> svcTimers'], svcOp'.key) = << >>

C5_UpdateAbsentIsNoOp == [][C5_UpdateAbsentStep]_vars

\* an update arrived for a chat whose session is gone while its registry is empty,
\* as it is once the session's timer has fired
C5_Witness ==
  /\ authOp = [op |-> "update", key |-> 1, had |-> FALSE]
  /\ 1 \notin DOMAIN sessions
  /\ 1 \notin DOMAIN activeTimeouts
  /\ 2 \in DOMAIN sessions

\* ------------------------------------------------------------------------ C2
\* C2: every update that finds its session puts the chat's expiry timer back to
\* the full sessionTimeout, counted from the moment of the update.
C2_UpdateRestartsTimerStep ==
  (InDialogue /\ last'.upd /\ last'.chat \in DOMAIN sessions')
    => \E t \in TimersOf(timers', last'.chat) : timers'[t].left = sessionTimeout
C2_UpdateRestartsTimer == [][C2_UpdateRestartsTimerStep]_vars

\* ------------------------------------------------------------------------ C4
\* C4: SessionManagerService.delete cancels the chat's expiry timer together with
\* the record, so a chat with a live timer always has a session.
C4_LiveTimerHasSession ==
  InDialogue => \A chatId \in Chats : TimersOf(timers, chatId) # {} => chatId \in DOMAIN sessions

\* ------------------------------------------------------------------------ C6
\* C6: a code step whose text equals the stored code calls linkIdMax and then
\* replies SUCCESS_AUTH with the session deleted; it is never answered with the
\* attempts-exhausted or the wrong-code message.
C6_CorrectCodeAccepted ==
  (last.h = "code" /\ last.correct) =>
    \/ last.reply = "" /\ \E r \in BagToSet(runs) : r.pc = "linkIdMax" /\ r.chat = last.chat
    \/ last.reply = "SUCCESS_AUTH" /\ last.chat \notin DOMAIN sessions

\* ------------------------------------------------------------------------ C7
\* C7: no stored session has attemptsCount >= MAX_ATTEMPTS; a wrong four-digit
\* code sent to a session in awaiting_code with attemptsCount = n - 1 leaves it in
\* awaiting_code with attemptsCount = n and reports MAX_ATTEMPTS - n attempts left
\* when n < MAX_ATTEMPTS, and deletes it with ATTEMPTS_EXCEEDED when n = MAX_ATTEMPTS.
C7_BelowLimit == \A chatId \in DOMAIN sessions : sessions[chatId].attemptsCount < MAX_ATTEMPTS
C7_WrongCodeStep ==
  \A chatId \in Chats :
    ( /\ InDialogue
      /\ last'.ev = "text" /\ last'.chat = chatId /\ last'.text # 0
      /\ chatId \in DOMAIN sessions
      /\ sessions[chatId].step = "awaiting_code"
      /\ sessions[chatId].matchedStaff # Undefined
      /\ sessions[chatId].code # last'.text )
    => LET n == sessions[chatId].attemptsCount + 1
       IN IF n < MAX_ATTEMPTS
          THEN /\ chatId \in DOMAIN sessions'
               /\ sessions'[chatId].step = "awaiting_code"
               /\ sessions'[chatId].attemptsCount = n
               /\ last'.reply = "ATTEMPT_FAILED"
               /\ last'.rem = MAX_ATTEMPTS - n
          ELSE /\ chatId \notin DOMAIN sessions'
               /\ last'.reply = "ATTEMPTS_EXCEEDED"
C7_AttemptsLimit == []C7_BelowLimit /\ [][C7_WrongCodeStep]_vars
\* the tenth wrong code in a row has just been answered
C7_Witness == last.h = "code" /\ ~last.correct /\ last.reply = "ATTEMPTS_EXCEEDED"

\* ------------------------------------------------------------------------ C8
\* C8: the attemptsCount of a stored session is lowered only by /resend_code or
\* by the session being re-created; no text and no contactOk / contactEr button
\* lowers it.
C8_AttemptsNotLoweredStep ==
  \A chatId \in Chats :
    ( /\ InDialogue
      /\ chatId \in DOMAIN sessions /\ chatId \in DOMAIN sessions'
      /\ sessions'[chatId].attemptsCount < sessions[chatId].attemptsCount )
    => last'.h \in {"resend", "authStart"}
C8_AttemptsNotLowered == [][C8_AttemptsNotLoweredStep]_vars

\* ------------------------------------------------------------------------ C9
\* C9: also when the correct code is delivered twice and the two runs interleave,
\* linkIdMax is called at most once for the session and at most one SUCCESS_AUTH
\* is sent.
C9_LinkedOnce ==
  InDialogue => \A chatId \in Chats : stats[chatId].links <= 1 /\ stats[chatId].successes <= 1

\* ----------------------------------------------------------------------- C10
\* C10: the step that replies SUCCESS_AUTH leaves no session for the chat; a text
\* for a chat without a session is passed to next() with no reply, no session
\* created, no identity link written and no handler run started.
C10_AfterSuccessStep ==
  \A chatId \in Chats :
    /\ (InDialogue /\ last'.chat = chatId /\ last'.reply = "SUCCESS_AUTH")
         => chatId \notin DOMAIN sessions'
    /\ (InDialogue /\ last'.ev = "text" /\ last'.chat = chatId /\ chatId \notin DOMAIN sessions)
         => /\ last'.next /\ last'.reply = ""
            /\ UNCHANGED <<sessions, activeTimeouts, timers, runs, staffMax, stats>>
C10_AfterSuccessNoSession == [][C10_AfterSuccessStep]_vars
\* the accepted code has been sent again and went to next()
C10_Witness ==
  \E chatId \in Chats :
    /\ stats[chatId].accepted # 0
    /\ last.ev = "text" /\ last.chat = chatId /\ last.next
    /\ last.text = stats[chatId].accepted

\* ----------------------------------------------------------------------- C11
\* C11: the step of a stored session only moves forward along awaiting_phone,
\* awaiting_fullname, awaiting_code: no step that keeps the session (one that
\* neither deletes nor re-creates it) takes it back to an earlier step.
StepRank(step) ==
  CASE step = "awaiting_phone" -> 1
    [] step = "awaiting_fullname" -> 2
    [] step = "awaiting_code" -> 3
C11_StepForwardStep ==
  \A chatId \in Chats :
    ( /\ InDialogue
      /\ chatId \in DOMAIN sessions /\ chatId \in DOMAIN sessions'
      /\ last'.h # "authStart" )
    => StepRank(sessions'[chatId].step) >= StepRank(sessions[chatId].step)
C11_StepForward == [][C11_StepForwardStep]_vars

\* ----------------------------------------------------------------------- C12
\* C12: the outcome of PhoneAuthFlowHandler.handle follows the staff lookup.  No
\* staff: PHONE_NOT_FOUND, then the session is deleted.  One staff with an
\* identity link: ALREADY_REGISTERED, then the session is deleted.  One staff
\* without a link: a four-digit code is stored and, once the SMS is sent, the
\* stored session is in awaiting_code with that staff as matchedStaff.  Two or
\* more staff: the stored session is in awaiting_fullname with the candidates
\* stored, the run ends and no code is stored.
FourDigit(code) == code \in 1000..9999
ThenDeletes(r) ==
  \E q \in BagToSet(runs') : q.pc = "thenDelete" /\ q.chat = r.chat /\ q.flow = r.flow
C12_PhoneFlowStep ==
  last'.ev = "resume" =>
  \A r \in BagToSet(runs) :
    r.flow = "phone" =>
      LET staffList == findStaffByPhone(r.phone)
          chatId == r.chat
      IN
      /\ (r.pc = "findStaff" /\ staffList = {} /\ AfterFindStaff(r))
           => last'.reply = "PHONE_NOT_FOUND" /\ ThenDeletes(r) /\ sessions' = sessions
      /\ (r.pc = "findStaff" /\ Cardinality(staffList) >= 2 /\ Has(chatId) /\ AfterFindStaff(r))
           => /\ sessions'[chatId].step = "awaiting_fullname"
              /\ sessions'[chatId].possibleStaff = staffList
              /\ sessions'[chatId].code = sessions[chatId].code
              /\ sessions'[chatId].lastSmsSentAt = sessions[chatId].lastSmsSentAt
              /\ last'.reply = "FULLNAME_PROMPT"
              /\ runs' = runs (-) SetToBag({r})
      /\ (r.pc = "findStaff" /\ Cardinality(staffList) = 1 /\ Has(chatId) /\ AfterFindStaff(r))
           => /\ sessions'[chatId].step = sessions[chatId].step
              /\ \E q \in BagToSet(runs') : q.pc = "hasIdMax" /\ q.staff \in staffList
      /\ (r.pc = "hasIdMax" /\ \E newCode \in GenCodes : AfterHasIdMax(r, newCode)) =>
           IF r.staff \in staffMax
           THEN last'.reply = "ALREADY_REGISTERED" /\ ThenDeletes(r) /\ sessions' = sessions
           ELSE Has(chatId) =>
                  /\ FourDigit(sessions'[chatId].code)
                  /\ sessions'[chatId].step = sessions[chatId].step
      /\ (r.pc = "sendSms" /\ Has(chatId) /\ AfterSendSms(r, TRUE))
           => /\ sessions'[chatId].step = "awaiting_code"
              /\ sessions'[chatId].matchedStaff = r.staff
              /\ sessions'[chatId].code = sessions[chatId].code
      /\ (r.pc = "thenDelete" /\ AfterReplyDelete(r)) => chatId \notin DOMAIN sessions'
C12_PhoneFlowOutcome == [][C12_PhoneFlowStep]_vars
\* the SMS of the phone flow has just been sent for a stored session
C12_Witness ==
  /\ last.h = "phone" /\ last.reply = "SMS_SENT"
  /\ last.chat \in DOMAIN sessions
  /\ sessions[last.chat].step = "awaiting_code"
  /\ FourDigit(sessions[last.chat].code)

\* C13: FullnameStepHandler.handle on a session in awaiting_fullname.  A text
\* that equals no stored candidate's "firstName lastName" case-insensitively
\* leaves the session as it is, in awaiting_fullname, and starts no run (so no
\* SMS is sent); a text that equals one goes on with that candidate: if the
\* candidate has an identity link the session is deleted, if it has none and
\* the SMS was sent the step becomes awaiting_code with the candidate stored
\* as matchedStaff.
NameMatches(chatId, inputText) ==
  {staff \in sessions[chatId].possibleStaff :
     toLowerCase(StaffName(staff)) = toLowerCase(inputText)}
C13_FullnameStepStep ==
  /\ last'.ev = "text" =>
     \A chatId \in Chats :
       (Has(chatId) /\ sessions[chatId].step = "awaiting_fullname") =>
         /\ (\E inputText \in Texts :
               /\ inputText.t # "empty"
               /\ NameMatches(chatId, inputText) = {}
               /\ HandleMessage(chatId, inputText))
            => /\ sessions' = sessions
               /\ timers' = timers /\ activeTimeouts' = activeTimeouts
               /\ runs' = runs
               /\ last'.reply = "FULLNAME_NOT_FOUND"
         /\ \A inputText \in NameTexts :
              (NameMatches(chatId, inputText) # {} /\ HandleMessage(chatId, inputText))
              => /\ sessions' = sessions
                 /\ \E q \in BagToSet(runs') :
                      /\ q.pc = "hasIdMax" /\ q.chat = chatId /\ q.flow = "fullname"
                      /\ q.staff \in NameMatches(chatId, inputText)
                      /\ runs' = runs (+) SetToBag({q})
  /\ last'.ev = "resume" =>
     \A r \in BagToSet(runs) :
       r.flow = "fullname" =>
         /\ (r.pc = "hasIdMax" /\ \E newCode \in GenCodes : AfterHasIdMax(r, newCode))
              => IF r.staff \in staffMax
                 THEN /\ last'.reply = "ALREADY_REGISTERED"
                      /\ ThenDeletes(r)
                 ELSE /\ \E q \in BagToSet(runs') : q.pc = "sendSms" /\ q.staff = r.staff
                      /\ Has(r.chat) => sessions'[r.chat].step = sessions[r.chat].step
         /\ (r.pc = "thenDelete" /\ AfterReplyDelete(r)) => r.chat \notin DOMAIN sessions'
         /\ (r.pc = "sendSms" /\ Has(r.chat) /\ AfterSendSms(r, TRUE))
              => /\ sessions'[r.chat].step = "awaiting_code"
                 /\ sessions'[r.chat].matchedStaff = r.staff
                 /\ last'.reply = "SMS_SENT"
C13_FullnameStep == [][C13_FullnameStepStep]_vars
C13_Witness ==
  /\ last.h = "fullname" /\ last.reply = "SMS_SENT"
  /\ last.chat \in DOMAIN sessions
  /\ sessions[last.chat].step = "awaiting_code"
  /\ sessions[last.chat].matchedStaff \in sessions[last.chat].possibleStaff
  /\ Cardinality(sessions[last.chat].possibleStaff) >= 2

\* C14: input that fails validation leaves the auth session untouched.  A text
\* that fails the phone format in awaiting_phone, and a text that is not four
\* digits in awaiting_code, produce only a reply that asks again: every field
\* of the session, the store, its timers and the suspended runs stay as they
\* were, and the session is not deleted.
C14_Untouched ==
  /\ sessions' = sessions
  /\ timers' = timers /\ activeTimeouts' = activeTimeouts
  /\ runs' = runs /\ staffMax' = staffMax
C14_InvalidInputStep ==
  last'.ev = "text" =>
  \A chatId \in Chats :
    Has(chatId) =>
      /\ ( /\ sessions[chatId].step = "awaiting_phone"
           /\ \E inputText \in Texts :
                ~isValidPhone(inputText) /\ HandleMessage(chatId, inputText) )
         => C14_Untouched /\ last'.reply = "PHONE"
      /\ ( /\ sessions[chatId].step = "awaiting_code"
           /\ \E inputText \in Texts :
                /\ ~isValidCodeInput(inputText) /\ inputText.t # "empty"
                /\ HandleMessage(chatId, inputText) )
         => C14_Untouched /\ last'.reply = "CODE_INVALID"
      /\ ( /\ sessions[chatId].step = "awaiting_code"
           /\ HandleMessage(chatId, Text("empty", 0, "none")) )
         => C14_Untouched /\ last'.reply = "PHONE"
C14_InvalidInputFrame == [][C14_InvalidInputStep]_vars
C14_Witness ==
  /\ last.h = "code" /\ last.reply = "CODE_INVALID"
  /\ last.chat \in DOMAIN sessions
  /\ sessions[last.chat].step = "awaiting_code"
  /\ sessions[last.chat].code # Undefined

\* C15: /resend_code starts an SMS send only if, when the command arrives, the
\* chat has a session, its step is awaiting_code, the anti-spam window (5
\* minutes) has passed since lastResendRequestAt and the cooldown (30 minutes)
\* has passed since lastSmsSentAt; a timestamp never set counts as long ago.
\* When a condition fails no send is started and the session - code,
\* attemptsCount, lastSmsSentAt, lastResendRequestAt - stays as it was.
C15_MayResend(chatId) ==
  /\ chatId \in DOMAIN sessions
  /\ sessions[chatId].step = "awaiting_code"
  /\ \/ sessions[chatId].lastResendRequestAt = NoTime
     \/ sessions[chatId].lastResendRequestAt >= RESEND_CODE_SPAM_LIMIT
  /\ \/ sessions[chatId].lastSmsSentAt = NoTime
     \/ sessions[chatId].lastSmsSentAt >= SMS_RESEND_COOLDOWN
C15_ResendStep ==
  /\ \A chatId \in Chats :
       (\E newCode \in GenCodes : ResendCode(chatId, newCode))
       => IF C15_MayResend(chatId)
          THEN \E q \in BagToSet(runs') :
                 /\ q.pc = "resendSms" /\ q.chat = chatId
                 /\ runs' = runs (+) SetToBag({q})
          ELSE /\ runs' = runs
               /\ sessions' = sessions
               /\ last'.reply \in {"SESSION_NOT_FOUND", "STEP_MISMATCH",
                                    "RESEND_SPAM_LIMIT", "SMS_COOLDOWN"}
  /\ \A q \in BagToSet(runs') :
       (q.pc = "resendSms" /\ CopiesIn(q, runs') > CopiesIn(q, runs))
       => C15_MayResend(q.chat)
C15_ResendOnlyWhenAllowed == [][C15_ResendStep]_vars
C15_Witness ==
  /\ last.h = "resend" /\ last.ev = "command" /\ last.upd
  /\ \E q \in BagToSet(runs) : q.pc = "resendSms" /\ q.chat = last.chat
C15_WitnessRefused ==
  /\ last.h = "resend" /\ last.reply = "RESEND_SPAM_LIMIT"
  /\ last.chat \in DOMAIN sessions
  /\ sessions[last.chat].step = "awaiting_code"

\* C16: a /resend_code that passes its checks stores the freshly generated
\* four-digit code in the session, sets attemptsCount to 0 and sets both
\* lastResendRequestAt and lastSmsSentAt to the time of the request, all while
\* the SMS call is still to be answered; and on a session that has had a
\* passing resend the code step accepts a text only if it equals the stored
\* code, so after the resend that is the new code and no longer the old one.
C16_ResendStep ==
  /\ \A chatId \in Chats, newCode \in GenCodes :
       (ResendCode(chatId, newCode) /\ C15_MayResend(chatId))
       => /\ sessions'[chatId].code = newCode
          /\ FourDigit(sessions'[chatId].code)
          /\ sessions'[chatId].attemptsCount = 0
          /\ sessions'[chatId].lastResendRequestAt = 0
          /\ sessions'[chatId].lastSmsSentAt = 0
          /\ sessions'[chatId].step = "awaiting_code"
          /\ \E q \in BagToSet(runs') : q.pc = "resendSms" /\ q.chat = chatId
          /\ \A t \in CodeTexts :
               t.v # newCode => sessions'[chatId].code # t.v
  /\ \A chatId \in Chats, inputText \in Texts :
       ( /\ HandleMessage(chatId, inputText)
         /\ Has(chatId)
         /\ sessions[chatId].step = "awaiting_code"
         /\ sessions[chatId].lastResendRequestAt # NoTime
         /\ \E q \in BagToSet(runs') :
              q.pc = "linkIdMax" /\ CopiesIn(q, runs') > CopiesIn(q, runs) )
       => /\ isValidCodeInput(inputText)
          /\ inputText.v = sessions[chatId].code
C16_ResendStoresNewCode == [][C16_ResendStep]_vars
C16_Witness ==
  /\ last.h = "code" /\ last.correct /\ last.reply = ""
  /\ last.chat \in DOMAIN sessions
  /\ sessions[last.chat].lastResendRequestAt # NoTime
  /\ last.text = sessions[last.chat].code
  /\ \E q \in BagToSet(runs) : q.pc = "linkIdMax" /\ q.chat = last.chat

\* C17: when a shared contact arrives for a chat whose session has
\* lastSmsSentAt less than 30 minutes in the past, AuthStartHandler only sends
\* the remaining-cooldown reply: the session is not created again, none of its
\* fields changes, and its expiry timer is not started again.
C17_CooldownStep ==
  last'.ev = "contact" =>
  \A chatId \in Chats :
    ( /\ chatId \in DOMAIN sessions
      /\ sessions[chatId].lastSmsSentAt # NoTime
      /\ sessions[chatId].lastSmsSentAt < SMS_RESEND_COOLDOWN
      /\ \E tel \in ContactPhones : AuthStart(chatId, tel) )
    => /\ last'.reply = "AUTH_START_COOLDOWN"
       /\ sessions' = sessions
       /\ timers' = timers
       /\ activeTimeouts' = activeTimeouts
       /\ runs' = runs
C17_CooldownFrame == [][C17_CooldownStep]_vars
C17_Witness ==
  /\ last.h = "authStart" /\ last.reply = "AUTH_START_COOLDOWN"
  /\ last.chat \in DOMAIN sessions
  /\ sessions[last.chat].lastSmsSentAt \in 1..(SMS_RESEND_COOLDOWN - 1)
  /\ sessions[last.chat].phone # Undefined

\* C18: in every step of the dialogue (awaiting_phone, awaiting_fullname,
\* awaiting_code) the cancel command deletes the auth session and is confirmed
\* to the user, after which get(chatId) finds no session.
C18_CancelStep ==
  \A chatId \in Chats :
    (HandleMessage(chatId, CancelText) /\ Has(chatId))
    => /\ SessionManagerService_get([sessions |-> sessions'], chatId) = << >>
       /\ last'.reply \notin {"", "PHONE", "FULLNAME_NOT_FOUND", "CODE_INVALID"}
C18_CancelDeletesSession == [][C18_CancelStep]_vars

\* C19: every auth session AuthStartHandler creates is removed from the store
\* in the end.  A stored session always has a pending timer of its chat in the
\* registry, due within the session timeout; the timer that fires on a stored
\* session deletes it and sends no reply; and from any state with a session
\* the chat later has none, or AuthStartHandler has put a new one in its place.
C19_HasLiveTimer ==
  InDialogue =>
    \A chatId \in DOMAIN sessions :
      /\ chatId \in DOMAIN activeTimeouts
      /\ activeTimeouts[chatId] \in DOMAIN timers
      /\ timers[activeTimeouts[chatId]].key = chatId
      /\ timers[activeTimeouts[chatId]].left \in 0..sessionTimeout
C19_TimerStep ==
  \A chatId \in Chats :
    \A t \in Handles(chatId) :
      (TimerFire(t) /\ Has(timers[t].key))
      => /\ timers[t].key \notin DOMAIN sessions'
         /\ last'.reply = ""
         /\ runs' = runs
C19_Created(chatId) ==
  last.h = "authStart" /\ last.chat = chatId /\ last.upd
C19_EventuallyRemoved ==
  /\ []C19_HasLiveTimer
  /\ [][C19_TimerStep]_vars
  /\ \A chatId \in Chats :
       Has(chatId) ~> (~Has(chatId) \/ C19_Created(chatId))
\* the timer has fired while a flow of the chat awaits its SMS answer: only
\* the timer can have removed the session the flow started on
C19_Witness ==
  /\ last.h = "timer" /\ last.chat \notin DOMAIN sessions
  /\ last.chat \notin DOMAIN activeTimeouts
  /\ \E q \in BagToSet(runs) : q.pc = "sendSms" /\ q.chat = last.chat

\* C20: when the auth session of a chat has been deleted while a step handler
\* of that chat is suspended at an await, the handler on resuming abandons
\* silently: it sends no reply and has no further effect for the chat - it
\* starts no SMS send, writes no identity link, writes no session.
C20_Resumes(r) ==
  \/ AfterFindStaff(r)
  \/ \E newCode \in GenCodes : AfterHasIdMax(r, newCode)
  \/ \E ok \in BOOLEAN : AfterSendSms(r, ok)
  \/ AfterReplyDelete(r)
  \/ AfterLinkIdMax(r)
C20_AbandonStep ==
  \A r \in BagToSet(runs) :
    (~Has(r.chat) /\ C20_Resumes(r))
    => /\ last'.reply = ""
       /\ runs' = runs (-) SetToBag({r})
       /\ staffMax' = staffMax
       /\ sessions' = sessions
C20_AbandonsSilently == [][C20_AbandonStep]_vars

\* C21: when a step handler throws on an event of a chat that has an auth
\* session - dispatched by MessageHandler for a text or by
\* PhoneConfirmationHandler for contactOk - the exception stays inside the
\* dispatching handler, the generic error reply is attempted and the session
\* of the chat is deleted.
C21_ThrowStep ==
  \A chatId \in Chats :
    ( \/ \E inputText \in Texts : HandleMessageThrows(chatId, inputText)
      \/ PhoneConfirmationThrows(chatId) )
    => /\ last'.reply = "GENERIC_ERROR"
       /\ \E q \in BagToSet(runs') :
            /\ q.pc = "thenDelete" /\ q.chat = chatId
            /\ runs' = runs (+) SetToBag({q})
C21_ThrowCaught == [][C21_ThrowStep]_vars

\* C22: whenever sendAuthCode reports failure - in the phone step, in the
\* fullname step or in /resend_code - the run replies SMS_SEND_ERROR, writes
\* nothing to the session (so it never sets awaiting_code) and goes on to
\* delete the session of the chat: after its last step the chat has no session.
C22_ThenDeletes(r) ==
  \E q \in BagToSet(runs') :
    /\ q.pc = "thenDelete" /\ q.chat = r.chat
    /\ runs' (+) SetToBag({r}) = runs (+) SetToBag({q})
C22_SmsFailedStep ==
  last'.ev = "resume" =>
    \A r \in BagToSet(runs) :
      /\ (r.pc = "sendSms" /\ AfterSendSms(r, FALSE))
         => /\ last'.reply = "SMS_SEND_ERROR"
            /\ sessions' = sessions
            /\ C22_ThenDeletes(r)
      /\ (r.pc = "resendSms" /\ AfterResendSms(r, FALSE))
         => /\ last'.reply = "SMS_SEND_ERROR"
            /\ sessions' = sessions
            /\ C22_ThenDeletes(r)
      /\ (r.pc = "thenDelete" /\ AfterReplyDelete(r))
         => r.chat \notin DOMAIN sessions'
C22_SmsFailureDeletes == [][C22_SmsFailedStep]_vars
\* a resend whose SMS failed has replied and is about to delete the session,
\* which is still in awaiting_code
C22_Witness ==
  \E chatId \in Chats :
    /\ last.ev = "resume" /\ last.h = "resend" /\ last.reply = "SMS_SEND_ERROR"
    /\ Has(chatId) /\ sessions[chatId].step = "awaiting_code"
    /\ \E q \in BagToSet(runs) : q.pc = "thenDelete" /\ q.chat = chatId

\* C23: when the correct code was entered but linkIdMax answers false, the
\* user gets the failure message and not SUCCESS_AUTH, and the session is
\* deleted; SUCCESS_AUTH is sent only when the link was stored.
C23_LinkFailedStep ==
  \A r \in BagToSet(runs) :
    (r.pc = "linkIdMax" /\ AfterLinkIdMaxFailed(r))
    => /\ last'.reply # "SUCCESS_AUTH"
       /\ last'.reply # ""
       /\ r.chat \notin DOMAIN sessions'
C23_LinkFailureReported == [][C23_LinkFailedStep]_vars

\* C24: while a SessionService session is in a state of the permission table
\* (awaiting_itemName, waiting_courier_reply, awaiting_photo_from_courier),
\* whether create or update put it there, every command and every callback
\* outside the allow-list of that state is stopped by DialogBlockerMiddleware:
\* the finish-current-step reply with the step description of the state is
\* sent, next() is not called and the session is unchanged.
C24_TableStates == {"awaiting_itemName", "waiting_courier_reply", "awaiting_photo_from_courier"}
C24_Blocked(userId) ==
  /\ last'.h = "DialogBlocker"
  /\ last'.reply = FinishStepReply(getDefaultStepDescription(svcSessions[userId].state))
  /\ ~last'.next
  /\ UNCHANGED <<svcSessions, svcTimers, runs, botVars>>
C24_BlockStep ==
  \A userId \in BotUsers :
    (userId \in DOMAIN svcSessions /\ svcSessions[userId].state \in C24_TableStates)
    => LET perm == getPermissionsByState(svcSessions[userId].state) IN
       /\ last'.ev = "callback"
          => \A payload \in Payloads :
               ( /\ ~(payload.arg = Undefined /\ payload.name \in perm.allowedCallbacks)
                 /\ BotCallback(userId, payload) )
               => C24_Blocked(userId)
       /\ last'.ev \in {"text", "command"}
          => \A message \in Messages :
               ( /\ message.cmd # "" /\ message.cmd \notin perm.allowedCommands
                 /\ \E saved \in BOOLEAN : BotMessage(userId, message, saved) )
               => C24_Blocked(userId)
C24_GateBlocks == [][C24_BlockStep]_vars

\* C25: for a SessionService session in any state, of the permission table or
\* not, /cancel is never stopped by the gate and its handler deletes the
\* session together with its timer and confirms the cancellation; in a state
\* outside the table /cancel is the only command let through and no callback
\* is let through.
C25_CancelStep ==
  \A userId \in BotUsers :
    userId \in DOMAIN svcSessions
    => /\ last'.ev \in {"text", "command"}
          => /\ (\E saved \in BOOLEAN : BotMessage(userId, Message("/cancel", 7, 0), saved))
                => /\ last'.h = "cancel" /\ last'.reply = "CANCELLED"
                   /\ userId \notin DOMAIN svcSessions'
                   /\ \A t \in DOMAIN svcTimers' : svcTimers'[t].key # userId
             /\ svcSessions[userId].state \notin C24_TableStates
                => \A message \in Messages :
                     ( /\ message.cmd \notin {"", "/cancel"}
                       /\ \E saved \in BOOLEAN : BotMessage(userId, message, saved) )
                     => /\ last'.h = "DialogBlocker" /\ ~last'.next
                        /\ UNCHANGED <<svcSessions, svcTimers>>
       /\ (last'.ev = "callback" /\ svcSessions[userId].state \notin C24_TableStates)
          => \A payload \in Payloads :
               BotCallback(userId, payload)
               => /\ last'.h = "DialogBlocker" /\ ~last'.next
                  /\ UNCHANGED <<svcSessions, svcTimers>>
C25_CancelAlwaysAllowed == [][C25_CancelStep]_vars
\* /cancel has just been handled for a user whose session is gone, timer and all
C25_Witness ==
  \E userId \in BotUsers :
    /\ last.h = "cancel" /\ last.reply = "CANCELLED" /\ last.chat = userId
    /\ svcOp.op = "delete" /\ svcOp.had
    /\ userId \notin DOMAIN svcSessions
    /\ svcTimers = EmptyMap

\* C26: SessionService.update on an existing session cancels the pending timer
\* and starts a new one for the full DIALOG_TIMEOUT, so a session is removed by
\* timeout only when DIALOG_TIMEOUT has passed since the last create or update
\* of its key: after create and after update the one timer of the key is the
\* one stored in the session and has the full time left, time only runs down
\* tick by tick, no other call changes the time left, and the timer that
\* removes a session is the one stored in it, with no time left.
C26_TimersOf(T, key) == {t \in DOMAIN T : T[t].key = key}
C26_TimerStep ==
  LET key == svcOp'.key IN
  /\ (svcOp'.op = "create" \/ (svcOp'.op = "update" /\ svcOp'.had))
     => /\ key \in DOMAIN svcSessions'
        /\ C26_TimersOf(svcTimers', key) = {svcSessions'[key].timer}
        /\ svcTimers'[svcSessions'[key].timer].left = DIALOG_TIMEOUT
        /\ \A t \in DOMAIN svcTimers' : svcTimers'[t].key # key
             => t \in DOMAIN svcTimers /\ svcTimers'[t] = svcTimers[t]
  /\ svcOp'.op = "tick"
     => /\ DOMAIN svcTimers' = DOMAIN svcTimers
        /\ \A t \in DOMAIN svcTimers : svcTimers'[t].left = svcTimers[t].left - 1
        /\ svcSessions' = svcSessions
  /\ svcOp'.op = "fire"
     => /\ svcOp'.had => \E t \in DOMAIN svcTimers :
                           /\ t = svcSessions[key].timer
                           /\ svcTimers[t].left = 0
                           /\ t \notin DOMAIN svcTimers'
        /\ \A k \in DOMAIN svcSessions \ DOMAIN svcSessions' : k = key
  /\ svcOp'.op \in {"delete", "clearAll", "fire"} \/ (svcOp'.op = "update" /\ ~svcOp'.had)
     => \A t \in DOMAIN svcTimers' : t \in DOMAIN svcTimers /\ svcTimers'[t] = svcTimers[t]
C26_UpdateRestartsTimeout ==
  [][focus = "SessionService" => C26_TimerStep]_vars
\* an update has just restarted the timer of a session while the timer of
\* another session has run down in part
C26_Witness ==
  \E key \in DOMAIN svcSessions :
    /\ svcOp.op = "update" /\ svcOp.had /\ svcOp.key = key
    /\ svcTimers[svcSessions[key].timer].left = DIALOG_TIMEOUT
    /\ \E t \in DOMAIN svcTimers : svcTimers[t].left < DIALOG_TIMEOUT

\* C27: a courier problem-order session makes only these transitions: it is
\* created in waiting_courier_reply; photo_yes moves it from
\* waiting_courier_reply to awaiting_photo_from_courier; photo_no deletes it
\* from waiting_courier_reply; a successful photo upload deletes it from
\* awaiting_photo_from_courier; cancel or timeout deletes it from any state.
\* photo_yes and photo_no have no effect in any other state, a text reply
\* never changes the state, and the session never returns from
\* awaiting_photo_from_courier to waiting_courier_reply.
C27_CourierState(S, userId) ==
  IF userId \in DOMAIN S /\ IsCourierSession(S[userId]) THEN S[userId].state ELSE "none"
C27_TransitionStep ==
  \A userId \in BotUsers :
    LET from == C27_CourierState(svcSessions, userId)
        to == C27_CourierState(svcSessions', userId)
        pressed(name) == BotCallback(userId, Payload(name, Undefined))
        cancelled == \E saved \in BOOLEAN : BotMessage(userId, Message("/cancel", 7, 0), saved)
        timedOut == \E t \in Handles(userId) : SvcTimerFire(t)
        uploaded == \E r \in BagToSet(runs) : r.pc = "create" /\ AfterCreate(r, TRUE)
    IN /\ (from = "none" /\ to # "none")
          => /\ to = "waiting_courier_reply"
             /\ \E o \in Orders : BotCallback(userId, Payload("problemOrderReply", o))
       /\ (from = "waiting_courier_reply" /\ to # from)
          => \/ to = "awaiting_photo_from_courier" /\ pressed("photo_yes")
             \/ to = "none" /\ (pressed("photo_no") \/ cancelled \/ timedOut)
       /\ (from = "awaiting_photo_from_courier" /\ to # from)
          => to = "none" /\ (uploaded \/ cancelled \/ timedOut)
       /\ (last'.ev = "callback" /\ from # "waiting_courier_reply"
             /\ (pressed("photo_yes") \/ pressed("photo_no")))
          => UNCHANGED <<svcSessions, svcTimers>>
       /\ (last'.ev = "text" /\ from # "none"
             /\ \E message \in Messages :
                  message.cmd = "" /\ \E saved \in BOOLEAN : BotMessage(userId, message, saved))
          => UNCHANGED <<svcSessions, svcTimers>>
C27_CourierTransitions == [][C27_TransitionStep]_vars

\* C28: courierReply stores the courier's comment only for a message with
\* non-empty text of at most 400 characters; for a message with no text or
\* with more than 400 characters nothing is written to the problem order, the
\* rejection reply is sent and the session stays unchanged in
\* waiting_courier_reply.
C28_ReplyStep ==
  last'.ev = "text" =>
    \A userId \in BotUsers :
      ( /\ userId \in DOMAIN svcSessions
        /\ IsCourierSession(svcSessions[userId])
        /\ svcSessions[userId].state = "waiting_courier_reply" )
      => \A message \in Messages :
           ( /\ message.cmd = ""
             /\ \E saved \in BOOLEAN : BotMessage(userId, message, saved) )
           => IF message.len = 0 \/ message.len > 400
              THEN /\ last'.reply = "REPLY_REJECTED"
                   /\ UNCHANGED <<problemOrders, problemOrderPhotos, svcSessions, svcTimers, runs>>
              ELSE /\ last'.reply \in {"REPLY_ACCEPTED", "REPLY_SAVE_ERROR"}
                   /\ last'.reply = "REPLY_ACCEPTED"
                      => problemOrders' =
                           [problemOrders EXCEPT ![svcSessions[userId].orderId] = message.len]
                   /\ last'.reply = "REPLY_SAVE_ERROR" => problemOrders' = problemOrders
                   /\ UNCHANGED <<problemOrderPhotos, svcSessions, svcTimers, runs>>
C28_CommentWritten ==
  \A o \in Orders : problemOrders[o] # NoComment => problemOrders[o] \in 1..400
C28_CommentOnlyValidText == []C28_CommentWritten /\ [][C28_ReplyStep]_vars
\* a comment of 400 characters is stored and a message was then rejected with
\* the session still waiting for the reply
C28_Witness ==
  \E userId \in DOMAIN svcSessions :
    /\ last.h = "courierReply" /\ last.reply = "REPLY_REJECTED"
    /\ svcSessions[userId].state = "waiting_courier_reply"
    /\ problemOrders[svcSessions[userId].orderId] = 400

\* C29: when finishDialogWithPhoto has succeeded for an order, photo messages
\* being handled one at a time, the photo rows stored for that order are
\* exactly the uploaded photos of that message: at most 3 rows, with the
\* indices 1..n in upload order, and no row of an earlier upload for the order
\* remains.
C29_RowsOf(rows, o) == SelectSeq(rows, LAMBDA row : row.orderId = o)
C29_PhotoStep ==
  last'.ev = "resume" =>
    \A r \in BagToSet(runs) :
      /\ (r.pc = "uploadPhotos" /\ \E oks \in SUBSET (1..3) : AfterUploadPhotos(r, oks))
         => \A q \in BagToSet(runs') :
              /\ Len(q.urls) \in 1..3
              /\ \A i \in 1..Len(q.urls) : q.urls[i] \in 1..Len(r.urls)
              /\ \A i, j \in 1..Len(q.urls) : i < j => q.urls[i] < q.urls[j]
      /\ (r.pc = "create" /\ AfterCreate(r, TRUE) /\ last'.reply = "PHOTO_THANKS")
         => /\ Len(r.urls) <= 3
            /\ C29_RowsOf(problemOrderPhotos', r.order) =
                 [i \in 1..Len(r.urls) |-> [orderId |-> r.order, url |-> r.urls[i], index |-> i]]
C29_PhotosReplaced == [][C29_PhotoStep]_vars
\* the dialogue has just ended with fewer rows for the order than an earlier
\* upload had stored
C29_Witness ==
  /\ last.reply = "PHOTO_THANKS"
  /\ Len(problemOrderPhotos) = 1
  /\ problemOrderPhotos[1].url = 3

\* C30: init-chat SessionManagerService: create(userId) while a session exists
\* for userId (a second /init_chat or the retryInitChat button) tears the
\* earlier session down with its timer, so exactly one timer is pending for
\* userId, the one of the stored session, and the new session is removed by
\* timeout only a full SESSION_TIMEOUT after its creation or last update.
C30_OneTimer ==
  \A userId \in Keys :
    LET pending == {t \in DOMAIN initTimers : initTimers[t].key = userId} IN
    IF userId \in DOMAIN initSessions
    THEN pending = {initSessions[userId].timeoutId}
    ELSE pending = {}
C30_TimeoutStep ==
  \A userId \in Keys :
    /\ (last'.h = "init_chat" /\ InitChatStart(userId))
       => \A t \in DOMAIN initTimers' :
            initTimers'[t].key = userId => initTimers'[t].left = SESSION_TIMEOUT
    /\ (last'.h = "timeout" /\ userId \in DOMAIN initSessions /\ userId \notin DOMAIN initSessions')
       => /\ initSessions[userId].timeoutId \in DOMAIN initTimers
          /\ initTimers[initSessions[userId].timeoutId].left = 0
          /\ InitChatTimerFire(initSessions[userId].timeoutId)
C30_CreateTearsDown == []C30_OneTimer /\ [][C30_TimeoutStep]_vars


\* C31: while the key of a bot_added event is in the seen-set, at most one
\* delivery of it has passed the duplicate gate of handleBotAdded; a further
\* delivery of that key starts no run (so sends neither the group-chat check
\* message nor the confirmation keyboard), is passed to next() and leaves the
\* init-chat sessions and their timers as they were; the two messages are sent
\* only by the run of a delivery that passed the gate, once per run.
C31_OncePerWindow == \A k \in DOMAIN seenEvents : seenEvents[k].passed <= 1
C31_DuplicateStep ==
  /\ \A e \in BotAddedEvents :
       (last'.h = "bot_added" /\ e.key \in DOMAIN seenEvents /\ InitChatBotAdded(e))
         => /\ last'.next
            /\ last'.reply = ""
            /\ runs' = runs
            /\ initSessions' = initSessions
            /\ initTimers' = initTimers
  /\ last'.reply = "CHECK_SENT" /\ last' # last
       => BagCardinality(runs') = BagCardinality(runs) - 1
C31_DuplicateDropped == []C31_OncePerWindow /\ [][C31_DuplicateStep]_vars
C31_Witness ==
  /\ last.h = "bot_added"
  /\ last.next
  /\ last.text # Undefined
  /\ last.text \in DOMAIN seenEvents
  /\ last.chat \in DOMAIN initSessions
  /\ initSessions[last.chat].step = "awaiting_chat"

\* C38: whenever handleUnitSelection sends the instruction to create the chat
\* and add the bot, the user's session exists afterwards, is in step
\* awaiting_chat and stores the unitId and unitName of the pressed button; a
\* unit selection that finds the session in awaiting_chat leaves the stored
\* unit as it was.
C38_SelectionStep ==
  \A userId \in BotUsers : \A unit \in Units :
    (last'.h = "unitChatInit" /\ InitChatUnitSelection(userId, unit))
      => /\ last'.reply = "CREATE_CHAT"
              => /\ userId \in DOMAIN initSessions'
                 /\ initSessions'[userId].step = "awaiting_chat"
                 /\ initSessions'[userId].unitId = unit
                 /\ initSessions'[userId].unitName = unit
         /\ last'.reply = "ALREADY_STARTED"
              => /\ userId \in DOMAIN initSessions'
                 /\ initSessions'[userId].unitId = initSessions[userId].unitId
                 /\ initSessions'[userId].unitName = initSessions[userId].unitName
C38_InstructionHasSession == [][C38_SelectionStep]_vars

\* C32: in the single-class AuthService at most one expiry timer is pending
\* per chatId at any time, and a timer that fires and deletes the session of
\* its chat is the timer that session holds in timeoutId (a timer set for an
\* earlier session never deletes a later one).
C32_OneTimer == \A chatId \in Chats : Cardinality({t \in DOMAIN timers : timers[t].key = chatId}) <= 1
C32_FireStep ==
  \A chatId \in Chats : \A t \in Handles(chatId) :
    (last'.h = "timeout" /\ AuthServiceTimerFire(t) /\ Has(chatId))
      => sessions[chatId].timeoutId = t
C32_OneTimerPerChat == []C32_OneTimer /\ [][C32_FireStep]_vars

\* C33: within the lifetime of one auth session two SMS sends for its chat are
\* never started less than the SMS cooldown (30 minutes) apart: a step that
\* starts a send (sendAuthCode in the phone or full-name flow, or a passing
\* /resend_code) on a stored session finds lastSmsSentAt of that session unset
\* or at least the cooldown old.
C33_StartsSend(chatId) ==
  \/ /\ last'.ev = "resume"
     /\ \E r \in BagToSet(runs) : \E newCode \in GenCodes :
          /\ r.chat = chatId
          /\ r.staff \notin staffMax
          /\ AfterHasIdMax(r, newCode)
  \/ /\ last'.ev = "command"
     /\ last'.upd
     /\ \E newCode \in GenCodes : ResendCode(chatId, newCode)
C33_SendStep ==
  \A chatId \in Chats :
    (Has(chatId) /\ C33_StartsSend(chatId))
      => \/ sessions[chatId].lastSmsSentAt = NoTime
         \/ sessions[chatId].lastSmsSentAt >= SMS_RESEND_COOLDOWN
C33_SendsCooldownApart == [][C33_SendStep]_vars

\* C34: with the session timer of 300000 ms started at auth start, the
\* anti-spam window of 5 minutes and the SMS cooldown of 30 minutes, a
\* /resend_code can pass: whenever it does, the session is stored, in
\* awaiting_code, its expiry timer is still pending, the anti-spam check passes
\* and the cooldown check passes because the session records no SMS time; the
\* witness is a state in which the new code has been sent for a live session.
C34_PassStep ==
  \A chatId \in Chats :
    (last'.ev = "command" /\ last'.h = "resend" /\ last'.upd
       /\ \E newCode \in GenCodes : ResendCode(chatId, newCode))
      => /\ Has(chatId)
         /\ sessions[chatId].step = "awaiting_code"
         /\ chatId \in DOMAIN activeTimeouts
         /\ activeTimeouts[chatId] \in DOMAIN timers
         /\ \/ sessions[chatId].lastResendRequestAt = NoTime
            \/ sessions[chatId].lastResendRequestAt >= RESEND_CODE_SPAM_LIMIT
         /\ sessions[chatId].lastSmsSentAt = NoTime
         /\ \E q \in BagToSet(runs') : q.pc = "resendSms" /\ q.chat = chatId
C35_FinishStep ==
  \A r \in BagToSet(runs) :
    (last'.reply = "PHOTO_THANKS"
       /\ AfterCreate(r, TRUE)
       /\ r.chat \in DOMAIN svcSessions
       /\ r.chat \notin DOMAIN svcSessions')
      => svcSessions[r.chat].orderId = r.order
C35_DeletesOwnSession == [][C35_FinishStep]_vars

\* C36: however the runs of finishDialogWithPhoto interleave at their awaits
\* (the same photo message delivered twice, or two photo messages), an order
\* never has more than 3 photo rows, nor two photo rows with the same index.
C36_PositionsOf(orderId) ==
  {n \in 1..Len(problemOrderPhotos) : problemOrderPhotos[n].orderId = orderId}
C36_AtMostThreeDistinct ==
  \A orderId \in Orders :
    /\ Cardinality(C36_PositionsOf(orderId)) <= 3
    /\ \A m, n \in C36_PositionsOf(orderId) :
         problemOrderPhotos[m].index = problemOrderPhotos[n].index => m = n

\* C37: finishDialogWithPhoto deletes the courier session only once the photo
\* urls are saved: its step that removes the session follows the create of the
\* last uploaded url (with one run at a time every url of the run then has its
\* row), and the steps
\* that report no photo, a failed upload or an error of the upload or the save
\* leave the session, in awaiting_photo_from_courier if the run's session is
\* still the stored one, and its timer untouched.
C37_Failed ==
  {"PHOTO_NOT_FOUND", "PHOTO_UPLOAD_FAILED", "PHOTO_FATAL_ERROR"}
C37_PhotoStep ==
  /\ (last'.reply = "PHOTO_NOT_FOUND"
        /\ \E userId \in BotUsers, message \in Messages, saved \in BOOLEAN :
             BotMessage(userId, message, saved))
       => /\ svcSessions' = svcSessions
          /\ svcTimers' = svcTimers
  /\ \A r \in BagToSet(runs) :
       (last'.h = "finishDialogWithPhoto"
          /\ (\E ok \in BOOLEAN : AfterCreate(r, ok) \/ AfterDeleteMany(r, ok)
                \/ \E oks \in SUBSET (1..3) : AfterUploadPhotos(r, oks)))
         => IF last'.reply = "PHOTO_THANKS"
            THEN /\ r.chat \notin DOMAIN svcSessions'
                 /\ r.pc = "create" /\ r.i = Len(r.urls)
                 /\ problemOrderPhotos' =
                      Append(problemOrderPhotos,
                             [orderId |-> r.order, url |-> r.urls[r.i], index |-> r.i])
                 /\ BotRunLimit = 1 =>
                      \A n \in 1..Len(r.urls) :
                        \E m \in 1..Len(problemOrderPhotos') :
                          problemOrderPhotos'[m] = [orderId |-> r.order, url |-> r.urls[n], index |-> n]
            ELSE /\ last'.reply \in C37_Failed \cup {""}
                 /\ svcSessions' = svcSessions
                 /\ svcTimers' = svcTimers
C37_DeleteAfterSave == [][C37_PhotoStep]_vars
C37_Witness ==
  /\ last.h = "finishDialogWithPhoto"
  /\ last.reply = "PHOTO_FATAL_ERROR"
  /\ last.chat \in DOMAIN svcSessions
  /\ svcSessions[last.chat].state = "awaiting_photo_from_courier"
  /\ \E n \in 1..Len(problemOrderPhotos) :
       problemOrderPhotos[n].orderId = svcSessions[last.chat].orderId

====
